---- MODULE Spec2Model ----
(***************************************************************************)
(* Simple-Automata: the simulation engine.                                 *)
(*                                                                         *)
(* A Grid (src/src/grid.rs) owns a Ruleset (src/src/ruleset.rs), a size N  *)
(* and N*N cells in row-major order.  next_generation rewrites every cell  *)
(* by the first Rule whose input Pattern (src/src/pattern.rs) matches the  *)
(* cell and whose Conditions (src/src/condition.rs) all match the cell's   *)
(* 8-neighborhood.                                                         *)
(*                                                                         *)
(* Rust indices are 0-based and are kept 0-based in the operators below;   *)
(* a Vec v is a TLA+ sequence, so Rust's v[i] is v[i + 1] here.            *)
(***************************************************************************)
EXTENDS Integers, Sequences, FiniteSets, TLC

VARIABLES
    grid,   \* Grid { ruleset, cells, size }                    (grid.rs 24-28)
    old,    \* history: the cells the last operation read, or <<>>; in the
            \* editor, the record of what the events have done so far
    op,     \* history: the last operation that ran
    clicks, \* history: number of set_cell calls, or of editor events, so far
    steps,  \* history: number of next_generation calls so far
    call,   \* history: the last call of a pure function, or the last event
            \* handled: arguments and result
    app     \* the fields of AppData beside the screen             (main.rs 29-46)

vars == <<grid, old, op, clicks, steps, call, app>>

---------------------------------------------------------------------------
(* Bounds of the model.                                                    *)

\* grids have size 1..MaxSize
MaxSize == 3
\* at most MaxClicks calls of set_cell in one behaviour
MaxClicks == 2
\* at most MaxSteps calls of next_generation in one behaviour
MaxSteps == 1
\* drawn grids differ from a uniform grid in at most MaxFilled cells
MaxFilled == 1
\* drawn direction lists hold at most MaxDirs directions
MaxDirs == 2
\* drawn Operator::List vectors hold at most MaxListLen elements
MaxListLen == 2
\* at most MaxEvents editor events in one behaviour
MaxEvents == 3
\* handles are drawn from 1..MaxHandle
MaxHandle == 3

---------------------------------------------------------------------------
(* Option<T>: None is the empty sequence, Some(v) the one-element one.     *)

None == <<>>
Some(v) == <<v>>

(* u8 and usize arithmetic.  usize is 64 bits wide on the build targets;   *)
(* TLC's integers are 32 bits wide, so the model keeps a 30-bit word: the  *)
(* only wrap the code can produce is 0 - 1, which lands on the largest     *)
(* word, far above every grid size, for either width.                      *)
U8Modulus == 2^8
UsizeModulus == 2^30

wrapping_add_signed(x, offset) == (x + offset + UsizeModulus) % UsizeModulus

---------------------------------------------------------------------------
(* Data model.                                                             *)

\* Cell::new
Cell(material_id) == [material_id |-> material_id]

\* enum Pattern { Material(MaterialId), Group(GroupId) }
PatternMaterial(id) == [kind |-> "Material", id |-> id]
PatternGroup(id) == [kind |-> "Group", id |-> id]

\* enum Direction, in declaration order
Directions ==
    <<"Northwest", "North", "Northeast", "West", "East", "Southwest", "South", "Southeast">>

\* enum Operator { List(Vec<u8>), Greater(u8), Less(u8) }
OperatorList(vec) == [kind |-> "List", vec |-> vec]
OperatorGreater(bound) == [kind |-> "Greater", bound |-> bound]
OperatorLess(bound) == [kind |-> "Less", bound |-> bound]

\* enum ConditionVariant { Directional(Vec<Direction>), Count(Operator) }
Directional(directions) == [kind |-> "Directional", directions |-> directions]
Count(operator) == [kind |-> "Count", operator |-> operator]

\* struct Condition { variant, pattern, inverted }
Condition(variant, pattern, inverted) ==
    [variant |-> variant, pattern |-> pattern, inverted |-> inverted]

\* struct Rule { input, output, conditions }
Rule(input, output, conditions) ==
    [input |-> input, output |-> output, conditions |-> conditions]

\* struct Material { id, name, color }
Material(id, name, color) == [id |-> id, name |-> name, color |-> color]

\* struct MaterialGroup { id, name, materials }
MaterialGroup(id, name, materials) == [id |-> id, name |-> name, materials |-> materials]

\* struct Ruleset { name, rules, materials, groups }
Ruleset(name, rules, materials, groups) ==
    [name |-> name, rules |-> rules, materials |-> materials, groups |-> groups]

---------------------------------------------------------------------------
(* Material registry and groups (src/src/material.rs, src/src/ruleset.rs). *)

\* MaterialMap::default: the material at position 0
MaterialMap_default(materials) == materials[1]

\* MaterialGroup::contains
MaterialGroup_contains(group, id) ==
    \E i \in 1..Len(group.materials) : group.materials[i] = id

\* (variant of Ruleset::group: a handle of no group resolves to the first
\* group of the rule set, if there is one)
Ruleset_group_or_first(ruleset, id) ==
    LET found == {i \in 1..Len(ruleset.groups) : ruleset.groups[i].id = id}
    IN  IF found = {}
        THEN (IF ruleset.groups = <<>> THEN None ELSE Some(ruleset.groups[1]))
        ELSE Some(ruleset.groups[CHOOSE i \in found : \A j \in found : i <= j])

\* Ruleset::group: the first group with that id, if any
Ruleset_group(ruleset, id) ==
    LET found == {i \in 1..Len(ruleset.groups) : ruleset.groups[i].id = id}
    IN  IF found = {}
        THEN None
        ELSE Some(ruleset.groups[CHOOSE i \in found : \A j \in found : i <= j])

---------------------------------------------------------------------------
(* Pattern (src/src/pattern.rs).                                           *)

\* (variant of Pattern::matches: a Group handle that resolves to no group
\* matches every cell)
Pattern_matches_unresolved(pattern, ruleset, target) ==
    IF pattern.kind = "Material"
    THEN pattern.id = target.material_id
    ELSE LET group == Ruleset_group(ruleset, pattern.id)
         IN  \/ group = None
             \/ MaterialGroup_contains(group[1], target.material_id)

\* Pattern::matches
Pattern_matches(pattern, ruleset, target) ==
    IF pattern.kind = "Material"
    THEN pattern.id = target.material_id
    ELSE LET group == Ruleset_group(ruleset, pattern.id)
         IN  /\ group /= None
             /\ MaterialGroup_contains(group[1], target.material_id)

---------------------------------------------------------------------------
(* Grid queries (src/src/grid.rs).                                         *)

\* (variant of Grid::new: the cells hold the material at the last position)
Grid_new_last(ruleset, size) ==
    [ruleset |-> ruleset,
     cells |-> [i \in 1..(size * size) |-> Cell(ruleset.materials[Len(ruleset.materials)].id)],
     size |-> size]

\* Grid::new
Grid_new(ruleset, size) ==
    [ruleset |-> ruleset,
     cells |-> [i \in 1..(size * size) |-> Cell(MaterialMap_default(ruleset.materials).id)],
     size |-> size]

\* Grid::cell_index
cell_index(g, x, y) == y * g.size + x

\* Grid::cell_coordinates
cell_coordinates(g, index) == <<index % g.size, index \div g.size>>

\* Grid::cell_at: self.cells.get(self.cell_index(x, y)).copied()
cell_at(g, x, y) ==
    LET index == cell_index(g, x, y)
    IN  IF index < Len(g.cells) THEN Some(g.cells[index + 1]) ELSE None

\* Grid::set_cell
set_cell(g, x, y, new) ==
    LET index == cell_index(g, x, y)
    IN  IF ~(index < Len(g.cells))
        THEN g
        ELSE [g EXCEPT !.cells[index + 1] = new]

\* (variant of Grid::get_neighbor: only y is tested against size)
get_neighbor_unchecked(g, index, x_offset, y_offset) ==
    LET xy == cell_coordinates(g, index)
        x == wrapping_add_signed(xy[1], x_offset)
        y == wrapping_add_signed(xy[2], y_offset)
    IN  IF y >= g.size
        THEN None
        ELSE cell_at(g, x, y)

\* Grid::get_neighbor
get_neighbor(g, index, x_offset, y_offset) ==
    LET xy == cell_coordinates(g, index)
        x == wrapping_add_signed(xy[1], x_offset)
        y == wrapping_add_signed(xy[2], y_offset)
    IN  IF x >= g.size \/ y >= g.size
        THEN None
        ELSE cell_at(g, x, y)

\* (variant of Grid::neighbors: the four diagonal slots are always absent)
neighbors_orthogonal(g, index) ==
    <<None,
      get_neighbor(g, index, 0, -1),
      None,
      get_neighbor(g, index, -1, 0),
      get_neighbor(g, index, 1, 0),
      None,
      get_neighbor(g, index, 0, 1),
      None>>

\* Grid::neighbors: the CellNeighbors array
neighbors(g, index) ==
    <<get_neighbor(g, index, -1, -1),
      get_neighbor(g, index, 0, -1),
      get_neighbor(g, index, 1, -1),
      get_neighbor(g, index, -1, 0),
      get_neighbor(g, index, 1, 0),
      get_neighbor(g, index, -1, 1),
      get_neighbor(g, index, 0, 1),
      get_neighbor(g, index, 1, 1)>>

\* (variant of CellNeighbors::in_direction: North and South read each other's slot)
in_direction_mirrored(array, direction) ==
    CASE direction = "Northwest" -> array[1]
      [] direction = "North"     -> array[7]
      [] direction = "Northeast" -> array[3]
      [] direction = "West"      -> array[4]
      [] direction = "East"      -> array[5]
      [] direction = "Southwest" -> array[6]
      [] direction = "South"     -> array[2]
      [] direction = "Southeast" -> array[8]

\* CellNeighbors::in_direction
in_direction(array, direction) ==
    CASE direction = "Northwest" -> array[1]
      [] direction = "North"     -> array[2]
      [] direction = "Northeast" -> array[3]
      [] direction = "West"      -> array[4]
      [] direction = "East"      -> array[5]
      [] direction = "Southwest" -> array[6]
      [] direction = "South"     -> array[7]
      [] direction = "Southeast" -> array[8]

\* CellNeighbors::count_matching: the loop over the 8 slots, from slot i on
RECURSIVE count_matching_from(_, _, _, _)
count_matching_from(array, ruleset, pattern, i) ==
    IF i > Len(array)
    THEN 0
    ELSE (IF array[i] /= None /\ Pattern_matches(pattern, ruleset, array[i][1]) THEN 1 ELSE 0)
         + count_matching_from(array, ruleset, pattern, i + 1)

\* (variant of CellNeighbors::count_matching: every in-grid slot counts,
\* whatever its cell)
count_matching_present(array, ruleset, pattern) ==
    Cardinality({i \in 1..Len(array) : array[i] /= None}) % U8Modulus

count_matching(array, ruleset, pattern) ==
    count_matching_from(array, ruleset, pattern, 1) % U8Modulus

---------------------------------------------------------------------------
(* Condition (src/src/condition.rs).                                       *)

\* (variant of Operator::contains: Greater(bound) starts at bound, not bound + 1)
Operator_contains_from_bound(operator, element) ==
    CASE operator.kind = "List" ->
            \E i \in 1..Len(operator.vec) : operator.vec[i] = element
      [] operator.kind = "Greater" ->
            operator.bound <= element /\ element <= 8
      [] operator.kind = "Less" ->
            0 <= element /\ element < operator.bound

\* (variant of Operator::contains: a List without entries contains every element)
Operator_contains_empty_any(operator, element) ==
    CASE operator.kind = "List" ->
            \/ operator.vec = <<>>
            \/ \E i \in 1..Len(operator.vec) : operator.vec[i] = element
      [] operator.kind = "Greater" ->
            LET start == (operator.bound + 1) % U8Modulus
            IN  start <= element /\ element <= 8
      [] operator.kind = "Less" ->
            0 <= element /\ element < operator.bound

\* Operator::contains.  (bound + 1) is u8 arithmetic.
Operator_contains(operator, element) ==
    CASE operator.kind = "List" ->
            \E i \in 1..Len(operator.vec) : operator.vec[i] = element
      [] operator.kind = "Greater" ->
            LET start == (operator.bound + 1) % U8Modulus
            IN  start <= element /\ element <= 8
      [] operator.kind = "Less" ->
            0 <= element /\ element < operator.bound

\* (variant of Condition::matches: a Directional condition asks every listed
\* direction to match, not any)
Condition_matches_all(condition, array, ruleset) ==
    IF condition.variant.kind = "Directional"
    THEN \A i \in 1..Len(condition.variant.directions) :
            LET cell == in_direction(array, condition.variant.directions[i])
            IN  cell /= None /\ Pattern_matches(condition.pattern, ruleset, cell[1])
    ELSE Operator_contains(condition.variant.operator,
                           count_matching(array, ruleset, condition.pattern))

\* (variant of Condition::matches: the result is negated when inverted is set)
Condition_matches_inverted(condition, array, ruleset) ==
    condition.inverted /=
        (IF condition.variant.kind = "Directional"
         THEN \E i \in 1..Len(condition.variant.directions) :
                 LET cell == in_direction(array, condition.variant.directions[i])
                 IN  cell /= None /\ Pattern_matches(condition.pattern, ruleset, cell[1])
         ELSE Operator_contains(condition.variant.operator,
                                count_matching(array, ruleset, condition.pattern)))

\* Condition::matches.  The inverted field is not read.
Condition_matches(condition, array, ruleset) ==
    IF condition.variant.kind = "Directional"
    THEN \E i \in 1..Len(condition.variant.directions) :
            LET cell == in_direction(array, condition.variant.directions[i])
            IN  cell /= None /\ Pattern_matches(condition.pattern, ruleset, cell[1])
    ELSE Operator_contains(condition.variant.operator,
                           count_matching(array, ruleset, condition.pattern))

---------------------------------------------------------------------------
(* Rule (src/src/ruleset.rs) and the generation step (src/src/grid.rs).    *)

\* (variant of Rule::transformed: the input pattern is not tested)
Rule_transformed_any_input(rule, g, cell, index) ==
    IF ~(\A i \in 1..Len(rule.conditions) :
            Condition_matches(rule.conditions[i], neighbors(g, index), g.ruleset))
    THEN None
    ELSE Some(Cell(rule.output))

\* Rule::transformed
Rule_transformed(rule, g, cell, index) ==
    IF ~Pattern_matches(rule.input, g.ruleset, cell)
    THEN None
    ELSE IF ~(\A i \in 1..Len(rule.conditions) :
                Condition_matches(rule.conditions[i], neighbors(g, index), g.ruleset))
         THEN None
         ELSE Some(Cell(rule.output))

\* (variant of find_map_transformed: the last rule that fires wins)
RECURSIVE find_map_last(_, _, _, _)
find_map_last(g, cell, index, i) ==
    IF i > Len(g.ruleset.rules)
    THEN None
    ELSE LET rest == find_map_last(g, cell, index, i + 1)
         IN  IF rest /= None
             THEN rest
             ELSE Rule_transformed(g.ruleset.rules[i], g, cell, index)

\* self.ruleset.rules.iter().find_map(|rule| rule.transformed(self, *cell, index)),
\* scanning from rule i on
RECURSIVE find_map_transformed(_, _, _, _)
find_map_transformed(g, cell, index, i) ==
    IF i > Len(g.ruleset.rules)
    THEN None
    ELSE LET t == Rule_transformed(g.ruleset.rules[i], g, cell, index)
         IN  IF t /= None THEN t ELSE find_map_transformed(g, cell, index, i + 1)

\* the closure of next_generation: the new cell at index
new_cell(g, index) ==
    LET cell == g.cells[index + 1]
        t == find_map_transformed(g, cell, index, 1)
    IN  IF t /= None THEN t[1] ELSE cell

\* (variant of next_generation: every cell is written back as soon as it is
\* computed, so the cells after it read it; from position index on)
RECURSIVE in_place_from(_, _)
in_place_from(g, index) ==
    IF index >= Len(g.cells)
    THEN g
    ELSE in_place_from([g EXCEPT !.cells[index + 1] = new_cell(g, index)], index + 1)

next_generation_in_place(g) == in_place_from(g, 0)

\* Grid::next_generation
next_generation(g) ==
    [g EXCEPT !.cells = [i \in 1..Len(g.cells) |-> new_cell(g, i - 1)]]

---------------------------------------------------------------------------
(* Rule sets the grids are built over.  Material handles are 1, 2, 3 and   *)
(* group handles 10, 11; group handle 99 belongs to no group.              *)

\* Conway's Life, B3/S23: Dead is the default material, Live = {Alive}
LifeRuleset ==
    Ruleset("Life",
        <<Rule(PatternMaterial(1), 2,
               <<Condition(Count(OperatorList(<<3>>)), PatternGroup(10), FALSE)>>),
          Rule(PatternMaterial(2), 2,
               <<Condition(Count(OperatorList(<<2, 3>>)), PatternGroup(10), FALSE)>>),
          Rule(PatternMaterial(2), 1, <<>>)>>,
        <<Material(1, "Dead", "#000000"), Material(2, "Alive", "#FFFFFF")>>,
        <<MaterialGroup(10, "Live", <<2>>)>>)

\* A becomes B when the northern neighbor is B; group 10 is used by no rule
DirectionalRuleset ==
    Ruleset("Directional",
        <<Rule(PatternMaterial(1), 2,
               <<Condition(Directional(<<"North">>), PatternMaterial(2), FALSE)>>)>>,
        <<Material(1, "A", "#000000"), Material(2, "B", "#FFFFFF")>>,
        <<MaterialGroup(10, "Bs", <<2>>)>>)

\* A becomes B when more than 5 neighbors are B
GreaterRuleset ==
    Ruleset("Greater",
        <<Rule(PatternMaterial(1), 2,
               <<Condition(Count(OperatorGreater(5)), PatternMaterial(2), FALSE)>>)>>,
        <<Material(1, "A", "#000000"), Material(2, "B", "#FFFFFF")>>,
        <<>>)

\* Default becomes Red under an inverted Count(Greater(0)) of Default
InversionRuleset ==
    Ruleset("Inversion",
        <<Rule(PatternMaterial(1), 2,
               <<Condition(Count(OperatorGreater(0)), PatternMaterial(1), TRUE)>>)>>,
        <<Material(1, "Default", "#000000"), Material(2, "Red", "#FF0000")>>,
        <<>>)

\* rules that refer to group 99, which has been deleted
DanglingRuleset ==
    Ruleset("Dangling",
        <<Rule(PatternGroup(99), 2, <<>>),
          Rule(PatternMaterial(1), 2,
               <<Condition(Directional(<<"South", "East">>), PatternGroup(99), FALSE)>>),
          Rule(PatternMaterial(2), 1,
               <<Condition(Count(OperatorLess(1)), PatternGroup(99), FALSE)>>)>>,
        <<Material(1, "A", "#000000"), Material(2, "B", "#FFFFFF")>>,
        <<>>)

\* the rule set of grid.rs's tests
TestRuleset ==
    Ruleset("New Ruleset",
        <<Rule(PatternMaterial(1), 2,
               <<Condition(Directional(<<"North", "South", "East", "West">>),
                           PatternMaterial(1), FALSE)>>),
          Rule(PatternMaterial(2), 1,
               <<Condition(Count(OperatorGreater(4)), PatternMaterial(2), FALSE)>>)>>,
        <<Material(1, "Empty", "#000000"), Material(2, "Filled", "#FFFFFF")>>,
        <<>>)

\* three materials, a group with a repeated member, a rule with two
\* conditions and rules whose inputs overlap
GroupsRuleset ==
    Ruleset("Groups",
        <<Rule(PatternGroup(10), 3,
               <<Condition(Directional(<<"West", "East">>), PatternMaterial(2), FALSE),
                 Condition(Count(OperatorLess(2)), PatternGroup(11), FALSE)>>),
          Rule(PatternMaterial(1), 2,
               <<Condition(Directional(<<"West", "North">>), PatternGroup(11), FALSE)>>),
          Rule(PatternGroup(11), 1,
               <<Condition(Count(OperatorList(<<0, 1>>)), PatternGroup(11), TRUE)>>)>>,
        <<Material(1, "A", "#000000"), Material(2, "B", "#FFFFFF"), Material(3, "C", "#0000FF")>>,
        <<MaterialGroup(10, "Ones", <<1, 1>>), MaterialGroup(11, "Others", <<2, 3>>)>>)

Rulesets ==
    {LifeRuleset, DirectionalRuleset, GreaterRuleset, InversionRuleset,
     DanglingRuleset, TestRuleset, GroupsRuleset}

\* the handles of a rule set's materials
MaterialIds(ruleset) == {ruleset.materials[i].id : i \in 1..Len(ruleset.materials)}

---------------------------------------------------------------------------
(* The engine as a state machine: Grid::new, then any sequence of set_cell *)
(* and next_generation.                                                    *)

NoCall == [fn |-> "none"]

\* where the application around the grid plays no part
NoApp == [screen |-> "none"]

\* the size*size positions of a grid, as 0-based indices
Indices(g) == 0..(Len(g.cells) - 1)

Init ==
    /\ \E ruleset \in Rulesets, size \in 1..MaxSize : grid = Grid_new(ruleset, size)
    /\ old = <<>>
    /\ op = "new"
    /\ clicks = 0
    /\ steps = 0
    /\ call = NoCall
    /\ app = NoApp

\* grid.set_cell(x, y, Cell::new(material_id)); x and y may lie one past the edge
SetCell(x, y, material_id) ==
    /\ clicks < MaxClicks
    /\ grid' = set_cell(grid, x, y, Cell(material_id))
    /\ old' = <<>>
    /\ op' = "set_cell"
    /\ clicks' = clicks + 1
    /\ UNCHANGED <<steps, call, app>>

\* grid.next_generation()
NextGeneration ==
    /\ steps < MaxSteps
    /\ grid' = next_generation(grid)
    /\ old' = grid.cells
    /\ op' = "next_generation"
    /\ steps' = steps + 1
    /\ UNCHANGED <<clicks, call, app>>

Next ==
    \/ \E x \in 0..grid.size, y \in 0..grid.size, material_id \in MaterialIds(grid.ruleset) :
          SetCell(x, y, material_id)
    \/ NextGeneration

Spec == Init /\ [][Next]_vars

---------------------------------------------------------------------------
(* What the specification says the engine computes, stated on coordinates  *)
(* and sets, without the code's index arithmetic, loops and Option values. *)

\* the 8 neighbor offsets (dx, dy)
NeighborOffsets == {o \in (-1..1) \X (-1..1) : o /= <<0, 0>>}

\* the geometric offset of a direction: North is up (y - 1), West is left (x - 1)
DirectionOffset(direction) ==
    CASE direction = "Northwest" -> <<-1, -1>>
      [] direction = "North"     -> <<0, -1>>
      [] direction = "Northeast" -> <<1, -1>>
      [] direction = "West"      -> <<-1, 0>>
      [] direction = "East"      -> <<1, 0>>
      [] direction = "Southwest" -> <<-1, 1>>
      [] direction = "South"     -> <<0, 1>>
      [] direction = "Southeast" -> <<1, 1>>

\* the cell at (x + dx, y + dy) when that lies on the grid, absent otherwise
ExpectedNeighbor(g, index, dx, dy) ==
    LET x == (index % g.size) + dx
        y == (index \div g.size) + dy
    IN  IF x \in 0..(g.size - 1) /\ y \in 0..(g.size - 1)
        THEN Some(g.cells[y * g.size + x + 1])
        ELSE None

\* Material(h) matches the cells of material h; Group(h) the cells whose
\* material is a member of a group with handle h
ExpectedPattern(pattern, ruleset, cell) ==
    IF pattern.kind = "Material"
    THEN cell.material_id = pattern.id
    ELSE \E i \in 1..Len(ruleset.groups) :
            /\ ruleset.groups[i].id = pattern.id
            /\ cell.material_id \in
                 {ruleset.groups[i].materials[j] : j \in 1..Len(ruleset.groups[i].materials)}

\* the offsets at which the cell at index has an in-grid neighbor the pattern matches
ExpectedMatching(g, index, pattern) ==
    {o \in NeighborOffsets :
        /\ ExpectedNeighbor(g, index, o[1], o[2]) /= None
        /\ ExpectedPattern(pattern, g.ruleset, ExpectedNeighbor(g, index, o[1], o[2])[1])}

\* List(vs): k in vs; Greater(b): b < k <= 8; Less(b): 0 <= k < b
ExpectedOperator(operator, k) ==
    CASE operator.kind = "List" -> k \in {operator.vec[i] : i \in 1..Len(operator.vec)}
      [] operator.kind = "Greater" -> operator.bound < k /\ k <= 8
      [] operator.kind = "Less" -> 0 <= k /\ k < operator.bound

\* whether the variant of a condition matches at index
ExpectedVariant(condition, g, index) ==
    IF condition.variant.kind = "Directional"
    THEN \E i \in 1..Len(condition.variant.directions) :
            DirectionOffset(condition.variant.directions[i])
                \in ExpectedMatching(g, index, condition.pattern)
    ELSE ExpectedOperator(condition.variant.operator,
                          Cardinality(ExpectedMatching(g, index, condition.pattern)))

\* the effective result of a condition: matches XOR inverted
ExpectedCondition(condition, g, index) ==
    ExpectedVariant(condition, g, index) /= condition.inverted

\* the grid next_generation read
OldGrid == [grid EXCEPT !.cells = old]

\* the rules (positions in the rule list) whose transformed() is not absent
\* for the cell at index of g
Firing(g, index) ==
    {i \in 1..Len(g.ruleset.rules) :
        Rule_transformed(g.ruleset.rules[i], g, g.cells[index + 1], index) /= None}

---------------------------------------------------------------------------
(* Claims about the generation step.                                       *)

\* C1: after next_generation the cell at every position p holds the output
\* material of the first rule, in list order, whose transformed() is not
\* absent for the old cell and the old neighborhood of p; where no rule
\* fires the cell is unchanged.
C1_FirstFiringRuleWins ==
    op = "next_generation" =>
        /\ Len(grid.cells) = Len(old)
        /\ \A p \in Indices(OldGrid) :
              LET firing == Firing(OldGrid, p)
              IN  IF firing = {}
                  THEN grid.cells[p + 1] = old[p + 1]
                  ELSE \E i \in firing :
                          /\ \A j \in firing : i <= j
                          /\ grid.cells[p + 1] = Cell(grid.ruleset.rules[i].output)

\* C1 witness: a step in which two rules with different outputs fire for one cell
C1_Witness ==
    /\ op = "next_generation"
    /\ \E p \in Indices(OldGrid) :
          \E i, j \in Firing(OldGrid, p) :
              grid.ruleset.rules[i].output /= grid.ruleset.rules[j].output

\* the positions 0..n-1 in two processing orders other than the ascending
\* one of the iterator: descending, and the odd positions before the even ones
ProcessingOrders(n) ==
    {[k \in 1..n |-> n - k],
     [k \in 1..n |-> IF k <= n \div 2 THEN 2 * k - 1 ELSE 2 * (k - n \div 2) - 2]}

\* the cells obtained by processing the positions of g in the given order,
\* each new cell computed from g and written into the buffer
RECURSIVE ProcessedInto(_, _, _)
ProcessedInto(g, order, buffer) ==
    IF order = <<>>
    THEN buffer
    ELSE ProcessedInto(g, Tail(order),
                       [buffer EXCEPT ![Head(order) + 1] = new_cell(g, Head(order))])

\* C2: next_generation is a simultaneous update: the cells after the step are
\* those obtained by computing every new cell from the previous generation,
\* in whatever order the positions are processed; so they are a function of
\* the rule set and the previous cells alone.
C2_SimultaneousUpdate ==
    op = "next_generation" =>
        \A order \in ProcessingOrders(Len(old)) :
            grid.cells = ProcessedInto(OldGrid, order, old)

\* C2 witness: a step whose result differs from the in-place update of the same grid
C2_Witness ==
    /\ op = "next_generation"
    /\ grid.cells /= next_generation_in_place(OldGrid).cells

\* C3: transformed() returns the output cell exactly when the input pattern
\* matches the cell and every condition of the rule holds (matches XOR
\* inverted) for the 8-neighborhood of the position, and absent otherwise;
\* a rule without conditions fires wherever its input matches.
C3_TransformedIffInputAndConditions ==
    op = "next_generation" =>
        \A p \in Indices(OldGrid), i \in 1..Len(grid.ruleset.rules) :
            LET rule == grid.ruleset.rules[i]
                cell == old[p + 1]
            IN  Rule_transformed(rule, OldGrid, cell, p) =
                    IF /\ ExpectedPattern(rule.input, grid.ruleset, cell)
                       /\ \A c \in 1..Len(rule.conditions) :
                             ExpectedCondition(rule.conditions[c], OldGrid, p)
                    THEN Some(Cell(rule.output))
                    ELSE None

\* C7: a condition evaluates to (variant matches) XOR inverted during a
\* step: a rule guarded by one inverted condition fires for a cell its input
\* matches exactly where the variant does not match.
C7_InvertedConditionIsNegated ==
    op = "next_generation" =>
        \A p \in Indices(OldGrid), i \in 1..Len(grid.ruleset.rules) :
            LET rule == grid.ruleset.rules[i]
            IN  (/\ Len(rule.conditions) = 1
                 /\ rule.conditions[1].inverted
                 /\ Pattern_matches(rule.input, grid.ruleset, old[p + 1]))
                => ((i \in Firing(OldGrid, p)) <=> ~ExpectedVariant(rule.conditions[1], OldGrid, p))

---------------------------------------------------------------------------
(* Drawn inputs: grids made by Grid::new followed by set_cell, direction   *)
(* lists, patterns and operators.                                          *)

\* the sets of at most n elements of S
SubsetsUpTo(S, n) == {T \in SUBSET S : Cardinality(T) <= n}

\* a sequence listing the elements of the set of integers S in ascending order
RECURSIVE Ascending(_)
Ascending(S) ==
    IF S = {}
    THEN <<>>
    ELSE LET least == CHOOSE x \in S : \A y \in S : x <= y
         IN  <<least>> \o Ascending(S \ {least})

\* the direction lists drawn: the directions at the positions in a set of
\* at most MaxDirs positions of the enum, in declaration order
DirectionLists ==
    {[i \in 1..Len(Ascending(T)) |-> Directions[Ascending(T)[i]]] : T \in SubsetsUpTo(1..8, MaxDirs)}

\* the patterns drawn: materials, groups and a handle of no group
DrawnPatterns ==
    {PatternMaterial(1), PatternMaterial(2), PatternGroup(10), PatternGroup(99)}

\* the Operator::List vectors drawn: at most MaxListLen counts, ascending
\* and without repeats, as the editor stores them
DrawnVecs == {Ascending(T) : T \in SubsetsUpTo(0..8, MaxListLen)}

\* the Count operators drawn
DrawnCountOperators ==
    {OperatorList(vec) : vec \in DrawnVecs}
        \cup {OperatorGreater(b) : b \in 0..8}
        \cup {OperatorLess(b) : b \in 0..8}

\* grid.set_cell(x, y, Cell::new(material_id)) for the cells at the given positions
RECURSIVE Painted(_, _, _)
Painted(g, positions, material_id) ==
    IF positions = {}
    THEN g
    ELSE LET index == CHOOSE i \in positions : TRUE
             xy == cell_coordinates(g, index)
         IN  Painted(set_cell(g, xy[1], xy[2], Cell(material_id)),
                     positions \ {index}, material_id)

\* Grid::new, then set_cell(material) on at most MaxFilled cells
DrawnGrids(ruleset) ==
    {Painted(Grid_new(ruleset, size), positions, material_id) :
        size \in 1..MaxSize,
        positions \in SubsetsUpTo(0..(MaxSize * MaxSize - 1), MaxFilled),
        material_id \in MaterialIds(ruleset)}

\* Grid::new, then set_cell(material) on the first n cells in row-major order
PrefixGrids(ruleset) ==
    {Painted(Grid_new(ruleset, size), 0..(n - 1), material_id) :
        size \in 1..MaxSize,
        n \in 0..(MaxSize * MaxSize),
        material_id \in MaterialIds(ruleset)}

\* the start of a behaviour on a drawn grid
Drawn(grids) ==
    /\ grid \in grids
    /\ old = <<>>
    /\ op = "new"
    /\ clicks = 0
    /\ steps = 0
    /\ call = NoCall
    /\ app = NoApp

\* condition.matches(grid.neighbors(index), &grid.ruleset)
CallConditionMatches(condition, index) ==
    /\ call' = [fn |-> "Condition::matches", condition |-> condition, index |-> index,
                ret |-> Condition_matches(condition, neighbors(grid, index), grid.ruleset)]
    /\ op' = "call"
    /\ UNCHANGED <<grid, old, clicks, steps, app>>

---------------------------------------------------------------------------
(* Directional conditions: a grid over the Directional rule set is drawn,  *)
(* then either a condition is evaluated at one of its cells or the grid is *)
(* stepped.                                                                *)

DirectionalConditions ==
    {Condition(Directional(ds), p, inv) :
        ds \in DirectionLists, p \in DrawnPatterns, inv \in BOOLEAN}

InitCondition == Drawn(DrawnGrids(DirectionalRuleset))

NextCondition ==
    /\ op = "new"
    /\ \/ \E condition \in DirectionalConditions, index \in Indices(grid) :
             CallConditionMatches(condition, index)
       \/ NextGeneration

SpecCondition == InitCondition /\ [][NextCondition]_vars

\* the 3x3 grid over the Directional rule set with a single B, at (1, 0)
SingleB == set_cell(Grid_new(DirectionalRuleset, 3), 1, 0, Cell(2))

\* C5: a Directional condition matches at a position exactly when at least
\* one of its listed directions has a neighbor that lies on the grid and that
\* the condition's pattern matches; a direction pointing off the grid
\* contributes nothing.  And stepping the 3x3 grid with a single B at (1, 0)
\* under "A becomes B when the northern neighbor is B" changes exactly the
\* cell at (1, 1), to B.
C5_DirectionalAnyListedNeighbor ==
    /\ op = "call" =>
          LET directions == call.condition.variant.directions
          IN  call.ret <=>
                \E i \in 1..Len(directions) :
                    LET o == DirectionOffset(directions[i])
                        x == (call.index % grid.size) + o[1]
                        y == (call.index \div grid.size) + o[2]
                    IN  /\ x \in 0..(grid.size - 1)
                        /\ y \in 0..(grid.size - 1)
                        /\ ExpectedPattern(call.condition.pattern, grid.ruleset,
                                           grid.cells[y * grid.size + x + 1])
    /\ (op = "next_generation" /\ OldGrid = SingleB) =>
          \A x, y \in 0..2 :
              grid.cells[y * 3 + x + 1] =
                  IF <<x, y>> = <<1, 1>> THEN Cell(2) ELSE SingleB.cells[y * 3 + x + 1]

\* C5 witness: a condition listing two directions, the first pointing off the
\* grid and the second at a neighbor the pattern matches, has matched
C5_Witness ==
    /\ op = "call"
    /\ call.ret
    /\ Len(call.condition.variant.directions) = 2
    /\ ExpectedNeighbor(grid, call.index,
                        DirectionOffset(call.condition.variant.directions[1])[1],
                        DirectionOffset(call.condition.variant.directions[1])[2]) = None
    /\ ExpectedNeighbor(grid, call.index,
                        DirectionOffset(call.condition.variant.directions[2])[1],
                        DirectionOffset(call.condition.variant.directions[2])[2]) /= None

\* C8: a Directional condition with no directions never matches, whatever
\* the neighborhood and the pattern, and the outcome is the same for both
\* values of its inverted flag.
C8_EmptyDirectionalNeverMatches ==
    (op = "call" /\ call.condition.variant.directions = <<>>) =>
        /\ call.ret = FALSE
        /\ \A inv \in BOOLEAN :
              Condition_matches([call.condition EXCEPT !.inverted = inv],
                                neighbors(grid, call.index), grid.ruleset) = call.ret

\* C8 witness: an inverted condition with no directions was evaluated at a
\* cell that has a neighbor its pattern matches
C8_Witness ==
    /\ op = "call"
    /\ call.condition.variant.directions = <<>>
    /\ call.condition.inverted
    /\ ExpectedMatching(grid, call.index, call.condition.pattern) /= {}
    /\ call.ret = FALSE

---------------------------------------------------------------------------
(* Count conditions: a grid over the Directional rule set whose first      *)
(* cells are painted is drawn, then a Count condition is evaluated at one  *)
(* of its cells; the cell in the middle of a 3x3 grid sees every number of *)
(* painted neighbors from 0 to 8.                                          *)

CountConditions ==
    {Condition(Count(o), p, inv) :
        o \in DrawnCountOperators, p \in DrawnPatterns, inv \in BOOLEAN}

InitCount == Drawn(PrefixGrids(DirectionalRuleset))

NextCount ==
    /\ op = "new"
    /\ \E condition \in CountConditions, index \in Indices(grid) :
          CallConditionMatches(condition, index)

SpecCount == InitCount /\ [][NextCount]_vars

\* the number of in-grid neighbors of the cell at index that the pattern matches
ExpectedCount(g, index, pattern) == Cardinality(ExpectedMatching(g, index, pattern))

\* C6: with k the number of in-grid neighbors the pattern matches, a Count
\* condition with List(vs) matches iff k is in vs, with Greater(b) iff
\* b < k <= 8, with Less(b) iff 0 <= k < b, for k and b in 0..8; so
\* Greater(5) matches for exactly 6, 7 or 8 matching neighbors.
C6_CountOperators ==
    op = "call" =>
        LET operator == call.condition.variant.operator
            k == ExpectedCount(grid, call.index, call.condition.pattern)
        IN  /\ k \in 0..8
            /\ operator.kind = "List" =>
                  (call.ret <=> k \in {operator.vec[i] : i \in 1..Len(operator.vec)})
            /\ operator.kind = "Greater" =>
                  (call.ret <=> (operator.bound < k /\ k <= 8))
            /\ operator.kind = "Less" =>
                  (call.ret <=> (0 <= k /\ k < operator.bound))
            /\ operator = OperatorGreater(5) => (call.ret <=> k \in {6, 7, 8})

\* C6 witness: Greater(5) has matched at a cell with exactly 6 matching neighbors
C6_Witness ==
    /\ op = "call"
    /\ call.condition.variant.operator = OperatorGreater(5)
    /\ ExpectedCount(grid, call.index, call.condition.pattern) = 6
    /\ call.ret

\* C9: a condition whose variant is Count(List([])) never matches, whatever
\* the neighborhood and the pattern.
C9_EmptyListNeverMatches ==
    (op = "call" /\ call.condition.variant.operator = OperatorList(<<>>)) =>
        call.ret = FALSE

\* C9 witness: Count(List([])) was evaluated at a cell with matching neighbors
C9_Witness ==
    /\ op = "call"
    /\ call.condition.variant.operator = OperatorList(<<>>)
    /\ ExpectedCount(grid, call.index, call.condition.pattern) > 0
    /\ call.ret = FALSE

---------------------------------------------------------------------------
(* Pattern::matches on its own: a grid over any of the rule sets is drawn, *)
(* then a pattern is matched against one of its cells.                     *)

\* the patterns probed: every material, every group, and handles of neither
ProbedPatterns ==
    {PatternMaterial(id) : id \in {1, 2, 3, 99}} \cup {PatternGroup(id) : id \in {10, 11, 99}}

InitPattern == Drawn(UNION {DrawnGrids(ruleset) : ruleset \in Rulesets})

\* pattern.matches(&grid.ruleset, grid.cells[index])
CallPatternMatches(pattern, index) ==
    /\ call' = [fn |-> "Pattern::matches", pattern |-> pattern, index |-> index,
                ret |-> Pattern_matches(pattern, grid.ruleset, grid.cells[index + 1])]
    /\ op' = "call"
    /\ UNCHANGED <<grid, old, clicks, steps, app>>

NextPattern ==
    /\ op = "new"
    /\ \E pattern \in ProbedPatterns, index \in Indices(grid) :
          CallPatternMatches(pattern, index)

SpecPattern == InitPattern /\ [][NextPattern]_vars

\* the groups of a rule set that carry the handle id
GroupsWithHandle(ruleset, id) ==
    {ruleset.groups[i] : i \in {j \in 1..Len(ruleset.groups) : ruleset.groups[j].id = id}}

\* C4: Material(h) matches a cell iff the cell's material is h; Group(h)
\* matches a cell iff the rule set has a group with handle h and the cell's
\* material is one of its members; a Group pattern whose handle resolves to
\* no group matches no cell.
C4_PatternMatches ==
    op = "call" =>
        LET c == grid.cells[call.index + 1]
            found == GroupsWithHandle(grid.ruleset, call.pattern.id)
        IN  /\ call.pattern.kind = "Material" =>
                  (call.ret <=> c.material_id = call.pattern.id)
            /\ call.pattern.kind = "Group" =>
                  (call.ret <=>
                      \E group \in found :
                          \E j \in 1..Len(group.materials) : group.materials[j] = c.material_id)
            /\ (call.pattern.kind = "Group" /\ found = {}) => call.ret = FALSE

\* C4 witness: a Group pattern whose handle resolves to no group was matched
\* against a cell of a rule set that has groups
C4_Witness ==
    /\ op = "call"
    /\ call.pattern = PatternGroup(99)
    /\ grid.ruleset.groups /= <<>>
    /\ call.ret = FALSE

---------------------------------------------------------------------------
(* Grid::get_neighbor on its own: a grid over the Groups rule set is drawn *)
(* with one cell of another material, then the neighbor of a cell at one   *)
(* of the 8 offsets is asked for.                                          *)

InitNeighbor == Drawn(DrawnGrids(GroupsRuleset))

\* grid.get_neighbor(index, x_offset, y_offset)
CallGetNeighbor(index, x_offset, y_offset) ==
    /\ call' = [fn |-> "Grid::get_neighbor", index |-> index,
                x_offset |-> x_offset, y_offset |-> y_offset,
                ret |-> get_neighbor(grid, index, x_offset, y_offset)]
    /\ op' = "call"
    /\ UNCHANGED <<grid, old, clicks, steps, app>>

NextNeighbor ==
    /\ op = "new"
    /\ \E index \in Indices(grid), offset \in NeighborOffsets :
          CallGetNeighbor(index, offset[1], offset[2])

SpecNeighbor == InitNeighbor /\ [][NextNeighbor]_vars

\* C10: for every cell (x, y) of an N x N grid and each of the 8 offsets
\* (dx, dy), get_neighbor returns the cell at (x + dx, y + dy) when both
\* coordinates lie in 0..N-1 and absent otherwise: no wrap to the opposite
\* edge or to an adjacent row, no default material in place of a cell.
C10_HardEdges ==
    op = "call" =>
        LET x == (call.index % grid.size) + call.x_offset
            y == (call.index \div grid.size) + call.y_offset
        IN  IF x >= 0 /\ x < grid.size /\ y >= 0 /\ y < grid.size
            THEN call.ret = Some(grid.cells[y * grid.size + x + 1])
            ELSE call.ret = None

\* C10 witness: the neighbor east of a cell on the right edge was asked for,
\* the first cell of the next row is not of the default material, and the
\* answer was absent
C10_Witness ==
    /\ op = "call"
    /\ call.x_offset = 1
    /\ call.y_offset = 0
    /\ call.index % grid.size = grid.size - 1
    /\ call.index + 1 < Len(grid.cells)
    /\ grid.cells[call.index + 2] /= Cell(MaterialMap_default(grid.ruleset.materials).id)
    /\ call.ret = None

---------------------------------------------------------------------------
(* The neighborhood of a cell: a grid over the Groups rule set is drawn,   *)
(* then the neighbors of one of its cells are listed and either read in a  *)
(* direction or counted against a pattern.                                 *)

InitNeighbors == Drawn(DrawnGrids(GroupsRuleset) \cup PrefixGrids(GroupsRuleset))

\* grid.neighbors(index).in_direction(direction)
CallInDirection(index, direction) ==
    /\ call' = [fn |-> "CellNeighbors::in_direction", index |-> index,
                direction |-> direction, array |-> neighbors(grid, index),
                ret |-> in_direction(neighbors(grid, index), direction)]
    /\ op' = "call"
    /\ UNCHANGED <<grid, old, clicks, steps, app>>

\* grid.neighbors(index).count_matching(&grid.ruleset, pattern)
CallCountMatching(index, pattern) ==
    /\ call' = [fn |-> "CellNeighbors::count_matching", index |-> index,
                pattern |-> pattern, array |-> neighbors(grid, index),
                ret |-> count_matching(neighbors(grid, index), grid.ruleset, pattern)]
    /\ op' = "call"
    /\ UNCHANGED <<grid, old, clicks, steps, app>>

NextNeighbors ==
    /\ op = "new"
    /\ \/ \E index \in Indices(grid), d \in 1..Len(Directions) :
             CallInDirection(index, Directions[d])
       \/ \E index \in Indices(grid), pattern \in ProbedPatterns :
             CallCountMatching(index, pattern)

SpecNeighbors == InitNeighbors /\ [][NextNeighbors]_vars

\* the 8 offsets in the order NW, N, NE, W, E, SW, S, SE
OrderedOffsets ==
    <<(<<-1, -1>>), (<<0, -1>>), (<<1, -1>>), (<<-1, 0>>),
      (<<1, 0>>), (<<-1, 1>>), (<<0, 1>>), (<<1, 1>>)>>

\* C11: neighbors(index) lists the 8 neighbors in the order NW, N, NE, W,
\* E, SW, S, SE, and in_direction(d) returns the neighbor at the geometric
\* offset of d (North = (0,-1), South = (0,+1), West = (-1,0), East =
\* (+1,0), diagonals accordingly), for every direction and every index.
C11_NeighborOrderAndDirections ==
    (op = "call" /\ call.fn = "CellNeighbors::in_direction") =>
        /\ Len(call.array) = 8
        /\ \A i \in 1..8 :
              call.array[i] =
                  ExpectedNeighbor(grid, call.index, OrderedOffsets[i][1], OrderedOffsets[i][2])
        /\ call.ret =
              ExpectedNeighbor(grid, call.index,
                               DirectionOffset(call.direction)[1],
                               DirectionOffset(call.direction)[2])

\* C11 witness: the neighbor to the North was read, it is the only cell of
\* its material among the neighbors, and a neighbor to the South exists
C11_Witness ==
    /\ op = "call"
    /\ call.fn = "CellNeighbors::in_direction"
    /\ call.direction = "North"
    /\ call.ret /= None
    /\ call.array[7] /= None
    /\ \A i \in 1..8 : (i /= 2 => call.array[i] /= call.ret)

\* C12: count_matching returns exactly the number of the 8 slots that are
\* in-grid and whose cell the pattern matches; the value lies in 0..8, is at
\* most 3 for a corner cell and at most 5 for a non-corner edge cell when
\* the grid has size 2 or more.
C12_CountMatchingExact ==
    (op = "call" /\ call.fn = "CellNeighbors::count_matching") =>
        LET x == call.index % grid.size
            y == call.index \div grid.size
            xEdge == x = 0 \/ x = grid.size - 1
            yEdge == y = 0 \/ y = grid.size - 1
        IN  /\ call.ret = Cardinality(ExpectedMatching(grid, call.index, call.pattern))
            /\ call.ret \in 0..8
            /\ (grid.size >= 2 /\ xEdge /\ yEdge) => call.ret <= 3
            /\ (grid.size >= 2 /\ (xEdge \/ yEdge) /\ ~(xEdge /\ yEdge)) => call.ret <= 5

\* C12 witness: a non-corner edge cell with 5 in-grid neighbors of which
\* the pattern matches some but not all
C12_Witness ==
    /\ op = "call"
    /\ call.fn = "CellNeighbors::count_matching"
    /\ Cardinality({i \in 1..8 : call.array[i] /= None}) = 5
    /\ call.ret \in 1..4

---------------------------------------------------------------------------
(* The grid's cells: Grid::new over a rule set, then any sequence of       *)
(* set_cell and of Grid::new at another size, and a read by cell_at.  The  *)
(* coordinates range one past the edge of the grid.                        *)

\* the rule sets the grids of this part are built over
GridRulesets == {DirectionalRuleset, GroupsRuleset}

InitGrid ==
    /\ \E ruleset \in GridRulesets, size \in 1..MaxSize : grid = Grid_new(ruleset, size)
    /\ old = <<>>
    /\ op = "new"
    /\ clicks = 0
    /\ steps = 0
    /\ call = [fn |-> "Grid::new", size |-> grid.size]
    /\ app = NoApp

\* GridEvent::Resized: Grid::new(grid.ruleset.clone(), size)
Resized(size) ==
    /\ op /= "call"
    /\ size /= grid.size
    /\ grid' = Grid_new(grid.ruleset, size)
    /\ old' = grid.cells
    /\ op' = "new"
    /\ call' = [fn |-> "Grid::new", size |-> size]
    /\ UNCHANGED <<clicks, steps, app>>

\* grid.set_cell(x, y, Cell::new(material_id))
CallSetCell(x, y, material_id) ==
    /\ op /= "call"
    /\ clicks < MaxClicks
    /\ grid' = set_cell(grid, x, y, Cell(material_id))
    /\ old' = grid.cells
    /\ op' = "set_cell"
    /\ call' = [fn |-> "Grid::set_cell", x |-> x, y |-> y, new |-> Cell(material_id)]
    /\ clicks' = clicks + 1
    /\ UNCHANGED <<steps, app>>

\* grid.cell_at(x, y)
CallCellAt(x, y) ==
    /\ op /= "call"
    /\ call' = [fn |-> "Grid::cell_at", x |-> x, y |-> y, ret |-> cell_at(grid, x, y)]
    /\ op' = "call"
    /\ UNCHANGED <<grid, old, clicks, steps, app>>

NextGrid ==
    \/ \E size \in 1..MaxSize : Resized(size)
    \/ \E x \in 0..grid.size, y \in 0..grid.size, material_id \in MaterialIds(grid.ruleset) :
          CallSetCell(x, y, material_id)
    \/ \E x \in 0..grid.size, y \in 0..grid.size : CallCellAt(x, y)

SpecGrid == InitGrid /\ [][NextGrid]_vars

\* C13: Grid::new(ruleset, N) yields a grid of exactly N*N cells, each
\* holding the handle of the material at position 0 of the rule set.
C13_NewGridIsDefault ==
    op = "new" =>
        /\ grid.size = call.size
        /\ Len(grid.cells) = call.size * call.size
        /\ \A i \in 1..Len(grid.cells) :
              grid.cells[i].material_id = grid.ruleset.materials[1].id

\* C13 witness: a 3x3 grid made by Grid::new in place of a grid that held a
\* cell of another material
C13_Witness ==
    /\ op = "new"
    /\ call.size = 3
    /\ Len(grid.cells) = 9
    /\ \E i \in 1..Len(old) : old[i].material_id /= grid.ruleset.materials[1].id

\* C14: set_cell(x, y, c) with x >= N or y >= N leaves every cell
\* unchanged; with 0 <= x, y < N it changes only the cell at y*N + x.
C14_SetCellBoundsChecked ==
    op = "set_cell" =>
        IF call.x >= grid.size \/ call.y >= grid.size
        THEN grid.cells = old
        ELSE grid.cells = [old EXCEPT ![call.y * grid.size + call.x + 1] = call.new]

\* C15: cell_at(x, y) returns the cell at y*N + x when 0 <= x, y < N and
\* absent whenever x >= N or y >= N.
C15_CellAtBoundsChecked ==
    (op = "call" /\ call.fn = "Grid::cell_at") =>
        IF call.x >= grid.size \/ call.y >= grid.size
        THEN call.ret = None
        ELSE call.ret = Some(grid.cells[call.y * grid.size + call.x + 1])

---------------------------------------------------------------------------
(* Handles, materials, groups and rule sets as the editor makes them       *)
(* (src/src/id.rs, src/src/material.rs, src/src/ruleset.rs).               *)

\* the values a handle is drawn from: rand's u32, cut down to 1..MaxHandle
Handles == 1..MaxHandle

\* (variant of UniqueId::new: the first candidate is returned unexamined)
UniqueId_new_unchecked(current) == Handles

\* UniqueId::new: the candidates the loop can return, those that are the id
\* of no entity of current
UniqueId_new(current) ==
    {candidate \in Handles : ~(\E i \in 1..Len(current) : current[i].id = candidate)}

\* MaterialColor::DEFAULT and MaterialColor::new
MaterialColor(r, g, b) == [r |-> r, g |-> g, b |-> b]
MaterialColor_DEFAULT == MaterialColor(0, 0, 0)

\* Material::new and Material::default, for each id UniqueId::new can return
Material_new(materials) ==
    {Material(id, "Empty", MaterialColor_DEFAULT) : id \in UniqueId_new(materials)}

\* MaterialGroup::new, for each id UniqueId::new can return
MaterialGroup_new(ruleset) ==
    {MaterialGroup(id, "New Group", <<>>) : id \in UniqueId_new(ruleset.groups)}

\* Rule::new
Rule_new(ruleset) ==
    Rule(PatternMaterial(MaterialMap_default(ruleset.materials).id),
         MaterialMap_default(ruleset.materials).id, <<>>)

\* MaterialMap::new
MaterialMap_new(default) == <<default>>

\* Ruleset::new, for each material Material::default can return
Ruleset_new ==
    {Ruleset("New Ruleset", <<>>, MaterialMap_new(default), <<>>) :
        default \in Material_new(<<>>)}

\* Vec::remove(index), index 0-based and in range
Vec_remove(vec, index) ==
    [i \in 1..(Len(vec) - 1) |-> IF i <= index THEN vec[i] ELSE vec[i + 1]]

\* MaterialMap::remove: the first material with that id is removed, if any
MaterialMap_remove(materials, id) ==
    LET found == {i \in 1..Len(materials) : materials[i].id = id}
    IN  IF found = {}
        THEN materials
        ELSE Vec_remove(materials, (CHOOSE i \in found : \A j \in found : i <= j) - 1)

\* (variant of MaterialMap::push: the material is put at position 0)
MaterialMap_push_front(materials, material) == <<material>> \o materials

\* MaterialMap::push
MaterialMap_push(materials, material) == Append(materials, material)

\* MaterialMap::get_at
MaterialMap_get_at(materials, index) ==
    IF index < Len(materials) THEN Some(materials[index + 1]) ELSE None

\* the value of a hexadecimal digit, or -1 for any other character
HexValue(c) ==
    CASE c \in {"0", "1", "2", "3", "4", "5", "6", "7", "8", "9"} ->
            CHOOSE v \in 0..9 : <<"0", "1", "2", "3", "4", "5", "6", "7", "8", "9">>[v + 1] = c
      [] c \in {"A", "B", "C", "D", "E", "F"} ->
            CHOOSE v \in 10..15 : <<"A", "B", "C", "D", "E", "F">>[v - 9] = c
      [] c \in {"a", "b", "c", "d", "e", "f"} ->
            CHOOSE v \in 10..15 : <<"a", "b", "c", "d", "e", "f">>[v - 9] = c
      [] OTHER -> -1

\* u8::from_str_radix(chunk, 16) for a chunk of one or two characters: an
\* optional '+', then hexadecimal digits, at least one
u8_from_str_radix(chunk) ==
    LET digits == IF chunk[1] = "+" THEN Tail(chunk) ELSE chunk
    IN  IF digits = <<>> \/ \E i \in 1..Len(digits) : HexValue(digits[i]) < 0
        THEN None
        ELSE IF Len(digits) = 1
             THEN Some(HexValue(digits[1]))
             ELSE Some(16 * HexValue(digits[1]) + HexValue(digits[2]))

\* MaterialColor::from_str on a text given as its characters: '#', then
\* exactly three chunks of two characters (the last may hold one)
MaterialColor_from_str(s) ==
    IF s = <<>> \/ s[1] /= "#"
    THEN None
    ELSE LET numbers == Tail(s)
             chunk(k) == SubSeq(numbers, 2 * k - 1, IF 2 * k <= Len(numbers) THEN 2 * k ELSE Len(numbers))
             count == (Len(numbers) + 1) \div 2
         IN  IF count /= 3 \/ \E k \in 1..3 : u8_from_str_radix(chunk(k)) = None
             THEN None
             ELSE Some(MaterialColor(u8_from_str_radix(chunk(1))[1],
                                     u8_from_str_radix(chunk(2))[1],
                                     u8_from_str_radix(chunk(3))[1]))

\* the texts typed into a color box
ColorTexts ==
    {<<"#", "F", "F", "0", "0", "0", "0">>,
     <<"#", "f", "f", "0", "0", "f">>,
     <<"F", "F", "0", "0", "0", "0">>}

\* the names typed into a name box
NameTexts == {"Stone"}

\* (variant of Pattern::from_index: the groups are looked up at index itself)
Pattern_from_index_unshifted(ruleset, index) ==
    LET material == MaterialMap_get_at(ruleset.materials, index)
    IN  IF material /= None
        THEN Some(PatternMaterial(material[1].id))
        ELSE IF index < Len(ruleset.groups)
             THEN Some(PatternGroup(ruleset.groups[index + 1].id))
             ELSE None

\* Pattern::from_index; index - materials.len() is usize arithmetic
Pattern_from_index(ruleset, index) ==
    LET material == MaterialMap_get_at(ruleset.materials, index)
    IN  IF material /= None
        THEN Some(PatternMaterial(material[1].id))
        ELSE LET shifted == (index - Len(ruleset.materials) + UsizeModulus) % UsizeModulus
             IN  IF shifted < Len(ruleset.groups)
                 THEN Some(PatternGroup(ruleset.groups[shifted + 1].id))
                 ELSE None

\* (variant of Ruleset::pattern_values: the group names come first)
Ruleset_pattern_values_groups_first(ruleset) ==
    [i \in 1..Len(ruleset.groups) |-> "#" \o ruleset.groups[i].name]
        \o [i \in 1..Len(ruleset.materials) |-> ruleset.materials[i].name]

\* Ruleset::pattern_values
Ruleset_pattern_values(ruleset) ==
    LET material_names == [i \in 1..Len(ruleset.materials) |-> ruleset.materials[i].name]
        group_names == [i \in 1..Len(ruleset.groups) |-> "#" \o ruleset.groups[i].name]
    IN  material_names \o group_names

---------------------------------------------------------------------------
(* The editor: a new rule set is on screen; material, group and rule       *)
(* events edit it through Screen::ruleset_mut(), which on the Grid screen  *)
(* is the rule set of the grid.  old records the rule set as constructed,  *)
(* the rule set before the last event, and how many materials the events   *)
(* have removed.                                                           *)

InitEditor ==
    /\ \E ruleset \in Ruleset_new :
          /\ grid = Grid_new(ruleset, 1)
          /\ old = [created |-> ruleset, before |-> ruleset, removals |-> 0]
    /\ op = "new"
    /\ clicks = 0
    /\ steps = 0
    /\ call = NoCall
    /\ app = NoApp

\* the common part of the handlers: the event has left ruleset on screen
Handled(event, ruleset) ==
    /\ op /= "call"
    /\ clicks < MaxEvents
    /\ grid' = [grid EXCEPT !.ruleset = ruleset]
    /\ old' = [old EXCEPT !.before = grid.ruleset,
                          !.removals = @ + (IF Len(ruleset.materials) < Len(grid.ruleset.materials)
                                            THEN 1
                                            ELSE 0)]
    /\ call' = event
    /\ op' = "event"
    /\ clicks' = clicks + 1
    /\ UNCHANGED <<steps, app>>

\* MaterialEvent::Created
MaterialCreated ==
    \E material \in Material_new(grid.ruleset.materials) :
        Handled([fn |-> "MaterialEvent::Created"],
                [grid.ruleset EXCEPT !.materials = MaterialMap_push(@, material)])

\* MaterialEvent::Renamed(index, name)
MaterialRenamed(index, name) ==
    Handled([fn |-> "MaterialEvent::Renamed", index |-> index, name |-> name],
            IF MaterialMap_get_at(grid.ruleset.materials, index) = None
            THEN grid.ruleset
            ELSE [grid.ruleset EXCEPT !.materials[index + 1].name = name])

\* MaterialEvent::Recolored(index, color)
MaterialRecolored(index, color) ==
    Handled([fn |-> "MaterialEvent::Recolored", index |-> index, color |-> color],
            IF \/ MaterialMap_get_at(grid.ruleset.materials, index) = None
               \/ MaterialColor_from_str(color) = None
            THEN grid.ruleset
            ELSE [grid.ruleset EXCEPT
                     !.materials[index + 1].color = MaterialColor_from_str(color)[1]])

\* MaterialEvent::Deleted(material_id), sent by the trash button of a
\* material, which is displayed while materials.len() != 1
MaterialDeleted(material_id) ==
    /\ Len(grid.ruleset.materials) /= 1
    /\ Handled([fn |-> "MaterialEvent::Deleted", material_id |-> material_id],
               [grid.ruleset EXCEPT !.materials = MaterialMap_remove(@, material_id)])

\* GroupEvent::Created
GroupCreated ==
    \E group \in MaterialGroup_new(grid.ruleset) :
        Handled([fn |-> "GroupEvent::Created"],
                [grid.ruleset EXCEPT !.groups = Append(@, group)])

\* GroupEvent::Deleted(group_index), sent by the trash button of a group
GroupDeleted(group_index) ==
    /\ group_index < Len(grid.ruleset.groups)
    /\ Handled([fn |-> "GroupEvent::Deleted", group_index |-> group_index],
               [grid.ruleset EXCEPT !.groups = Vec_remove(@, group_index)])

\* GroupEvent::EntryAdded(group_index)
GroupEntryAdded(group_index) ==
    Handled([fn |-> "GroupEvent::EntryAdded", group_index |-> group_index],
            IF ~(group_index < Len(grid.ruleset.groups))
            THEN grid.ruleset
            ELSE [grid.ruleset EXCEPT
                     !.groups[group_index + 1].materials =
                         Append(@, MaterialMap_default(grid.ruleset.materials).id)])

\* GroupEvent::Edited { group_index, entry_index, new_material_index }
GroupEdited(group_index, entry_index, new_material_index) ==
    Handled([fn |-> "GroupEvent::Edited", group_index |-> group_index,
             entry_index |-> entry_index, new_material_index |-> new_material_index],
            IF ~(group_index < Len(grid.ruleset.groups))
            THEN grid.ruleset
            ELSE IF MaterialMap_get_at(grid.ruleset.materials, new_material_index) = None
                 THEN grid.ruleset
                 ELSE IF ~(entry_index < Len(grid.ruleset.groups[group_index + 1].materials))
                      THEN grid.ruleset
                      ELSE [grid.ruleset EXCEPT
                               !.groups[group_index + 1].materials[entry_index + 1] =
                                   MaterialMap_get_at(grid.ruleset.materials,
                                                      new_material_index)[1].id])

\* GroupEvent::EntryDeleted { group_index, entry_index }, sent by the trash
\* button of an entry
GroupEntryDeleted(group_index, entry_index) ==
    /\ group_index < Len(grid.ruleset.groups)
       => entry_index < Len(grid.ruleset.groups[group_index + 1].materials)
    /\ Handled([fn |-> "GroupEvent::EntryDeleted", group_index |-> group_index,
                entry_index |-> entry_index],
               IF ~(group_index < Len(grid.ruleset.groups))
               THEN grid.ruleset
               ELSE [grid.ruleset EXCEPT
                        !.groups[group_index + 1].materials = Vec_remove(@, entry_index)])

\* RuleEvent::Created
RuleCreated ==
    Handled([fn |-> "RuleEvent::Created"],
            [grid.ruleset EXCEPT !.rules = Append(@, Rule_new(grid.ruleset))])

\* RuleEvent::OutputSet(rule_index, material_index), sent by the output
\* box of a rule
RuleOutputSet(rule_index, material_index) ==
    /\ rule_index < Len(grid.ruleset.rules)
    /\ Handled([fn |-> "RuleEvent::OutputSet", rule_index |-> rule_index,
                material_index |-> material_index],
               IF MaterialMap_get_at(grid.ruleset.materials, material_index) = None
               THEN grid.ruleset
               ELSE [grid.ruleset EXCEPT
                        !.rules[rule_index + 1].output =
                            MaterialMap_get_at(grid.ruleset.materials, material_index)[1].id])

\* RuleEvent::InputSet(rule_index, pattern_index), sent by the input box
\* of a rule
RuleInputSet(rule_index, pattern_index) ==
    /\ rule_index < Len(grid.ruleset.rules)
    /\ Handled([fn |-> "RuleEvent::InputSet", rule_index |-> rule_index,
                pattern_index |-> pattern_index],
               IF Pattern_from_index(grid.ruleset, pattern_index) = None
               THEN grid.ruleset
               ELSE [grid.ruleset EXCEPT
                        !.rules[rule_index + 1].input =
                            Pattern_from_index(grid.ruleset, pattern_index)[1]])

\* ruleset.materials.remove(id), called on its own
CallMaterialMapRemove(id) ==
    /\ op /= "call"
    /\ grid' = [grid EXCEPT !.ruleset.materials = MaterialMap_remove(@, id)]
    /\ old' = [old EXCEPT !.before = grid.ruleset]
    /\ call' = [fn |-> "MaterialMap::remove", id |-> id]
    /\ op' = "call"
    /\ UNCHANGED <<clicks, steps, app>>

\* Pattern::from_index(ruleset, index)
CallFromIndex(index) ==
    /\ op /= "call"
    /\ call' = [fn |-> "Pattern::from_index", index |-> index,
                ret |-> Pattern_from_index(grid.ruleset, index)]
    /\ op' = "call"
    /\ UNCHANGED <<grid, old, clicks, steps, app>>

\* ruleset.pattern_values()
CallPatternValues ==
    /\ op /= "call"
    /\ call' = [fn |-> "Ruleset::pattern_values",
                ret |-> Ruleset_pattern_values(grid.ruleset)]
    /\ op' = "call"
    /\ UNCHANGED <<grid, old, clicks, steps, app>>

\* the positions of a list and the one past its end
UpTo(vec) == 0..Len(vec)

\* the longest member list of the groups on screen
MaxEntries ==
    IF grid.ruleset.groups = <<>>
    THEN 0
    ELSE CHOOSE n \in 0..MaxEvents :
            /\ \E i \in 1..Len(grid.ruleset.groups) : Len(grid.ruleset.groups[i].materials) = n
            /\ \A i \in 1..Len(grid.ruleset.groups) : Len(grid.ruleset.groups[i].materials) <= n

NextEditor ==
    \/ MaterialCreated
    \/ \E index \in UpTo(grid.ruleset.materials), name \in NameTexts :
          MaterialRenamed(index, name)
    \/ \E index \in UpTo(grid.ruleset.materials), color \in ColorTexts :
          MaterialRecolored(index, color)
    \/ \E i \in 1..Len(grid.ruleset.materials) : MaterialDeleted(grid.ruleset.materials[i].id)
    \/ GroupCreated
    \/ \E group_index \in UpTo(grid.ruleset.groups) : GroupDeleted(group_index)
    \/ \E group_index \in UpTo(grid.ruleset.groups) : GroupEntryAdded(group_index)
    \/ \E group_index \in UpTo(grid.ruleset.groups), entry_index \in 0..MaxEntries,
          new_material_index \in UpTo(grid.ruleset.materials) :
          GroupEdited(group_index, entry_index, new_material_index)
    \/ \E group_index \in UpTo(grid.ruleset.groups), entry_index \in 0..MaxEntries :
          GroupEntryDeleted(group_index, entry_index)
    \/ RuleCreated
    \/ \E rule_index \in UpTo(grid.ruleset.rules),
          material_index \in UpTo(grid.ruleset.materials) :
          RuleOutputSet(rule_index, material_index)
    \/ \E rule_index \in UpTo(grid.ruleset.rules),
          pattern_index \in 0..(Len(grid.ruleset.materials) + Len(grid.ruleset.groups)) :
          RuleInputSet(rule_index, pattern_index)
    \/ \E id \in Handles : CallMaterialMapRemove(id)
    \/ \E index \in 0..(Len(grid.ruleset.materials) + Len(grid.ruleset.groups) + 1) :
          CallFromIndex(index)
    \/ CallPatternValues

SpecEditor == InitEditor /\ [][NextEditor]_vars

\* the ids of a list of entities
Ids(entities) == {entities[i].id : i \in 1..Len(entities)}

\* C16: removing a material from a registry that holds exactly one material
\* fails and leaves the registry unchanged; so after any sequence of
\* material creations and deletions the registry is nonempty.
C16_RemoveKeepsLastMaterial ==
    /\ (op = "call" /\ call.fn = "MaterialMap::remove" /\ Len(old.before.materials) = 1) =>
          grid.ruleset.materials = old.before.materials
    /\ Len(grid.ruleset.materials) >= 1

\* C17: after any sequence of edits that remove no material, the material
\* at position 0 equals the default material the rule set was constructed with.
C17_DefaultMaterialUnchanged ==
    (op = "event" /\ old.removals = 0) =>
        grid.ruleset.materials[1] = old.created.materials[1]

\* C17, amended: after any sequence of edits that remove no material, the
\* material at position 0 has the handle of the default material the rule
\* set was constructed with; its name and color are those given by the
\* last rename and recolor of position 0, if any.
C17_DefaultHandleStable ==
    (op = "event" /\ old.removals = 0) =>
        /\ grid.ruleset.materials[1].id = old.created.materials[1].id
        /\ (/\ grid.ruleset.materials[1] /= old.before.materials[1]
            /\ old.before.materials[1].id = old.created.materials[1].id)
           => (/\ call.fn \in {"MaterialEvent::Renamed", "MaterialEvent::Recolored"}
               /\ call.index = 0)

\* C17 witness: materials were created and the default renamed, none removed
C17_Witness ==
    /\ op = "event"
    /\ old.removals = 0
    /\ Len(grid.ruleset.materials) >= 3
    /\ grid.ruleset.materials[1].name /= old.created.materials[1].name

\* C18: UniqueId::new(existing) returns a handle that no entity of existing
\* has; so in every state reached from a new rule set by create and delete
\* events no two materials share a handle and no two groups share a handle.
C18_HandlesUnique ==
    /\ Cardinality(Ids(grid.ruleset.materials)) = Len(grid.ruleset.materials)
    /\ Cardinality(Ids(grid.ruleset.groups)) = Len(grid.ruleset.groups)
    /\ (op = "event" /\ call.fn = "MaterialEvent::Created") =>
          grid.ruleset.materials[Len(grid.ruleset.materials)].id
              \notin Ids(old.before.materials)
    /\ (op = "event" /\ call.fn = "GroupEvent::Created") =>
          grid.ruleset.groups[Len(grid.ruleset.groups)].id \notin Ids(old.before.groups)

\* C18 witness: a material was created after another had been removed, and
\* two materials are in the registry
C18_Witness ==
    /\ op = "event"
    /\ call.fn = "MaterialEvent::Created"
    /\ old.removals > 0
    /\ Len(grid.ruleset.materials) >= 2

\* C19: from_index(rs, i) is Material(materials[i].handle) when
\* i < |materials|, Group(groups[i - |materials|].handle) when
\* |materials| <= i < |materials| + |groups|, and absent for every larger i.
C19_FromIndex ==
    (op = "call" /\ call.fn = "Pattern::from_index") =>
        LET m == Len(grid.ruleset.materials)
            g == Len(grid.ruleset.groups)
            i == call.index
        IN  /\ i < m => call.ret = Some(PatternMaterial(grid.ruleset.materials[i + 1].id))
            /\ (m <= i /\ i < m + g) =>
                  call.ret = Some(PatternGroup(grid.ruleset.groups[i - m + 1].id))
            /\ i >= m + g => call.ret = None

\* C19 witness: the index of the second group of a rule set with two
\* materials was looked up
C19_Witness ==
    /\ op = "call"
    /\ call.fn = "Pattern::from_index"
    /\ Len(grid.ruleset.materials) = 2
    /\ call.index = 3
    /\ call.ret /= None

\* C20: pattern_values(rs) has length |materials| + |groups|, lists the
\* material names in registry order and then the group names, each prefixed
\* with '#', and entry i is the display name of the entity that
\* from_index(rs, i) denotes.
C20_PatternValues ==
    (op = "call" /\ call.fn = "Ruleset::pattern_values") =>
        LET m == Len(grid.ruleset.materials)
            g == Len(grid.ruleset.groups)
        IN  /\ Len(call.ret) = m + g
            /\ \A i \in 0..(m - 1) : call.ret[i + 1] = grid.ruleset.materials[i + 1].name
            /\ \A i \in 0..(g - 1) : call.ret[m + i + 1] = "#" \o grid.ruleset.groups[i + 1].name
            /\ \A i \in 0..(m + g - 1) :
                  LET pattern == Pattern_from_index(grid.ruleset, i)
                  IN  /\ pattern /= None
                      /\ pattern[1].kind = "Material" =>
                            \E k \in 1..m :
                                /\ grid.ruleset.materials[k].id = pattern[1].id
                                /\ call.ret[i + 1] = grid.ruleset.materials[k].name
                      /\ pattern[1].kind = "Group" =>
                            \E k \in 1..g :
                                /\ grid.ruleset.groups[k].id = pattern[1].id
                                /\ call.ret[i + 1] = "#" \o grid.ruleset.groups[k].name

\* C20 witness: the values of a rule set with a renamed material, another
\* material and a group were listed
C20_Witness ==
    /\ op = "call"
    /\ call.fn = "Ruleset::pattern_values"
    /\ Len(call.ret) = 3
    /\ call.ret[1] /= call.ret[2]
    /\ call.ret[3] = "#New Group"

---------------------------------------------------------------------------
(* Count operators (src/src/condition.rs) and the condition editor         *)
(* (src/src/main.rs): a rule with a Count and a Directional condition is   *)
(* on screen; the operator button and the count text box edit the Count    *)
(* operator, and Operator::contains is evaluated for the bounds a rule     *)
(* file can store.                                                         *)

\* the u8 values
StoredBounds == 0..(U8Modulus - 1)

\* whether (bound + 1) of Operator::contains leaves the range of u8
Operator_contains_overflows(operator) ==
    operator.kind = "Greater" /\ operator.bound + 1 >= U8Modulus

\* Operator::contains as the builds run it: where (bound + 1) overflows, a
\* build with overflow checks panics and a build without them goes on with
\* the wrapped sum
Operator_contains_outcomes(operator, element) ==
    {[panicked |-> FALSE, value |-> Operator_contains(operator, element)]}
        \cup (IF Operator_contains_overflows(operator)
              THEN {[panicked |-> TRUE, value |-> FALSE]}
              ELSE {})

\* char::to_digit(10), then u8::try_from
to_digit(char) ==
    CASE char = "0" -> Some(0)
      [] char = "1" -> Some(1)
      [] char = "2" -> Some(2)
      [] char = "3" -> Some(3)
      [] char = "4" -> Some(4)
      [] char = "5" -> Some(5)
      [] char = "6" -> Some(6)
      [] char = "7" -> Some(7)
      [] char = "8" -> Some(8)
      [] char = "9" -> Some(9)
      [] OTHER -> None

\* (variant of the filter of the digits: the 9 is kept too)
digits_up_to_9(count_string) ==
    LET kept == {i \in 1..Len(count_string) : to_digit(count_string[i]) /= None}
        position(k) == CHOOSE i \in kept : Cardinality({j \in kept : j <= i}) = k
    IN  [k \in 1..Cardinality(kept) |-> to_digit(count_string[position(k)])[1]]

\* count_string.chars().filter_map(to_digit).filter(|&n| n <= 8).collect()
RECURSIVE digits_up_to_8(_)
digits_up_to_8(count_string) ==
    IF count_string = <<>>
    THEN <<>>
    ELSE LET digit == to_digit(Head(count_string))
         IN  (IF digit /= None /\ digit[1] <= 8 THEN digit ELSE <<>>)
                 \o digits_up_to_8(Tail(count_string))

\* the insertion of element into an ascending vector
RECURSIVE inserted(_, _)
inserted(vec, element) ==
    IF vec = <<>>
    THEN <<element>>
    ELSE IF element <= Head(vec)
         THEN <<element>> \o vec
         ELSE <<Head(vec)>> \o inserted(Tail(vec), element)

\* Vec::sort_unstable
RECURSIVE sort_unstable(_)
sort_unstable(vec) ==
    IF vec = <<>> THEN <<>> ELSE inserted(sort_unstable(Tail(vec)), Head(vec))

\* (variant of Vec::dedup: every element is kept)
dedup_skipped(vec) == vec

\* Vec::dedup: of every run of equal elements the first is kept
RECURSIVE dedup(_)
dedup(vec) ==
    IF Len(vec) < 2
    THEN vec
    ELSE IF vec[1] = vec[2]
         THEN dedup(Tail(vec))
         ELSE <<vec[1]>> \o dedup(Tail(vec))

\* elements.into_iter().min()
Iterator_min(elements) ==
    IF elements = <<>>
    THEN None
    ELSE Some(CHOOSE m \in {elements[i] : i \in 1..Len(elements)} :
                 \A i \in 1..Len(elements) : m <= elements[i])

\* elements.into_iter().max()
Iterator_max(elements) ==
    IF elements = <<>>
    THEN None
    ELSE Some(CHOOSE m \in {elements[i] : i \in 1..Len(elements)} :
                 \A i \in 1..Len(elements) : m >= elements[i])

\* Option::unwrap_or
unwrap_or(option, default) == IF option = None THEN default ELSE option[1]

\* (variant of Operator::with_elements: Greater and Less take each other's end)
Operator_with_elements_swapped(operator, elements) ==
    CASE operator.kind = "List" -> OperatorList(elements)
      [] operator.kind = "Greater" -> OperatorGreater(unwrap_or(Iterator_max(elements), 0))
      [] operator.kind = "Less" -> OperatorLess(unwrap_or(Iterator_min(elements), 0))

\* Operator::with_elements
Operator_with_elements(operator, elements) ==
    CASE operator.kind = "List" -> OperatorList(elements)
      [] operator.kind = "Greater" -> OperatorGreater(unwrap_or(Iterator_min(elements), 0))
      [] operator.kind = "Less" -> OperatorLess(unwrap_or(Iterator_max(elements), 0))

\* Condition::new
Condition_new(ruleset) ==
    Condition(Count(OperatorList(<<0>>)),
              PatternMaterial(MaterialMap_default(ruleset.materials).id), FALSE)

\* the rule set of the condition editor: the Directional rule set, whose
\* rule has got a new condition in front of its Directional one
OperatorRuleset ==
    [DirectionalRuleset EXCEPT
        !.rules[1].conditions = <<Condition_new(DirectionalRuleset)>> \o @]

\* the texts typed into a count box
CountTexts ==
    {<<>>,
     <<"9">>,
     <<"a", "b">>,
     <<"2", "3">>,
     <<"1", "1">>,
     <<"3", "9", "1">>,
     <<"8", ",", "0", ",", "8">>,
     <<"3", "1", "3", "9", "0">>}

InitOperator ==
    /\ grid = Grid_new(OperatorRuleset, 1)
    /\ old = [before |-> OperatorRuleset]
    /\ op = "new"
    /\ clicks = 0
    /\ steps = 0
    /\ call = NoCall
    /\ app = NoApp

\* the events one run of the condition editor handles
MaxConditionEvents == 6

\* the common part of the condition handlers: the event has left variant
\* in the condition at (rule_index, condition_index)
ConditionHandled(event, rule_index, condition_index, variant) ==
    /\ op /= "call"
    /\ clicks < MaxConditionEvents
    /\ grid' = [grid EXCEPT
                   !.ruleset.rules[rule_index + 1].conditions[condition_index + 1].variant =
                       variant]
    /\ old' = [old EXCEPT !.before = grid.ruleset]
    /\ call' = event
    /\ op' = "event"
    /\ clicks' = clicks + 1
    /\ UNCHANGED <<steps, app>>

\* ConditionEvent::CountUpdated(index, count_string)
CountUpdated(rule_index, condition_index, count_string) ==
    LET condition == grid.ruleset.rules[rule_index + 1].conditions[condition_index + 1]
        elements == dedup(sort_unstable(digits_up_to_8(count_string)))
    IN  ConditionHandled([fn |-> "ConditionEvent::CountUpdated", rule_index |-> rule_index,
                          condition_index |-> condition_index,
                          count_string |-> count_string],
                         rule_index, condition_index,
                         IF condition.variant.kind /= "Count"
                         THEN condition.variant
                         ELSE Count(Operator_with_elements(condition.variant.operator,
                                                           elements)))

\* (variant of <[T]>::first: the last element)
Vec_last(vec) == IF vec = <<>> THEN None ELSE Some(vec[Len(vec)])

\* <[T]>::first, copied
Vec_first(vec) == IF vec = <<>> THEN None ELSE Some(vec[1])

\* ConditionEvent::OperatorChanged(index)
OperatorChanged(rule_index, condition_index) ==
    LET condition == grid.ruleset.rules[rule_index + 1].conditions[condition_index + 1]
        variant == condition.variant.operator
    IN  ConditionHandled([fn |-> "ConditionEvent::OperatorChanged", rule_index |-> rule_index,
                          condition_index |-> condition_index],
                         rule_index, condition_index,
                         IF condition.variant.kind /= "Count"
                         THEN condition.variant
                         ELSE Count(CASE variant.kind = "List" ->
                                            OperatorGreater(unwrap_or(Vec_first(variant.vec),
                                                                      0))
                                      [] variant.kind = "Greater" ->
                                            OperatorLess(variant.bound)
                                      [] variant.kind = "Less" ->
                                            OperatorList(<<variant.bound>>)))

\* operator.contains(element), for an operator as a rule file stores it
CallOperatorContains(operator, element) ==
    /\ op = "new"
    /\ \E outcome \in Operator_contains_outcomes(operator, element) :
          call' = [fn |-> "Operator::contains", operator |-> operator,
                   element |-> element, ret |-> outcome]
    /\ op' = "call"
    /\ UNCHANGED <<grid, old, clicks, steps, app>>

NextOperator ==
    \/ \E rule_index \in 0..(Len(grid.ruleset.rules) - 1) :
          \E condition_index \in 0..(Len(grid.ruleset.rules[rule_index + 1].conditions) - 1) :
              \/ \E count_string \in CountTexts :
                    CountUpdated(rule_index, condition_index, count_string)
              \/ OperatorChanged(rule_index, condition_index)
    \/ \E b \in StoredBounds, element \in 0..8 :
          \/ CallOperatorContains(OperatorGreater(b), element)
          \/ CallOperatorContains(OperatorLess(b), element)

SpecOperator == InitOperator /\ [][NextOperator]_vars

\* C29: evaluating Greater(b) and Less(b) completes without arithmetic
\* overflow for every u8 bound b and every count k in 0..8; Greater(b) with
\* b >= 8 matches no k and Less(b) with b > 8 matches every k.
C29_CountOperatorsTotal ==
    (op = "call" /\ call.fn = "Operator::contains") =>
        /\ ~call.ret.panicked
        /\ (call.operator.kind = "Greater" /\ call.operator.bound >= 8) => ~call.ret.value
        /\ (call.operator.kind = "Less" /\ call.operator.bound > 8) => call.ret.value

\* what is left of C29 for the bounds below the largest u8
C29_BelowLargestBound ==
    (op = "call" /\ call.fn = "Operator::contains" /\ call.operator.bound < U8Modulus - 1) =>
        /\ ~call.ret.panicked
        /\ (call.operator.kind = "Greater" /\ call.operator.bound >= 8) => ~call.ret.value
        /\ (call.operator.kind = "Less" /\ call.operator.bound > 8) => call.ret.value

\* the digits from 0 to 8 that occur in a text
DigitsOf(count_string) ==
    {d \in 0..8 : \E i \in 1..Len(count_string) : to_digit(count_string[i]) = Some(d)}

\* the variant a condition event found in the condition it names
EditedBefore ==
    old.before.rules[call.rule_index + 1].conditions[call.condition_index + 1].variant

\* the operator the event left there
EditedAfter ==
    grid.ruleset.rules[call.rule_index + 1].conditions[call.condition_index + 1].variant

\* C30: editing the count text keeps the kind of the operator; with new_vs
\* the values 0..8 of the text, List becomes List(new_vs) sorted and without
\* repeats, Greater becomes Greater(min(new_vs)) and Less becomes
\* Less(max(new_vs)), both with 0 for an empty new_vs.
C30_WithElements ==
    (op = "event" /\ call.fn = "ConditionEvent::CountUpdated" /\ EditedBefore.kind = "Count") =>
        LET new_vs == DigitsOf(call.count_string)
            before == EditedBefore.operator
            after == EditedAfter.operator
        IN  /\ EditedAfter.kind = "Count"
            /\ after.kind = before.kind
            /\ before.kind = "List" => after.vec = Ascending(new_vs)
            /\ before.kind = "Greater" =>
                  after.bound = (IF new_vs = {} THEN 0
                                 ELSE CHOOSE m \in new_vs : \A v \in new_vs : m <= v)
            /\ before.kind = "Less" =>
                  after.bound = (IF new_vs = {} THEN 0
                                 ELSE CHOOSE m \in new_vs : \A v \in new_vs : m >= v)

\* C30 witness: a Greater operator took the least of the values of a text
\* that repeats a digit, is not ascending and holds a 9
C30_Witness ==
    /\ op = "event"
    /\ call.fn = "ConditionEvent::CountUpdated"
    /\ EditedBefore.kind = "Count"
    /\ EditedBefore.operator.kind = "Greater"
    /\ call.count_string = <<"3", "9", "1">>
    /\ EditedAfter = Count(OperatorGreater(1))

\* C31: an OperatorChanged event on a Count condition turns List into
\* Greater with the first element of the list, or 0 for an empty list, as
\* its bound, Greater into Less with the same bound, and Less into the
\* List of its bound alone; on a Directional condition it leaves the rule
\* set as it was.
C31_OperatorCycle ==
    (op = "event" /\ call.fn = "ConditionEvent::OperatorChanged") =>
        IF EditedBefore.kind = "Count"
        THEN LET before == EditedBefore.operator
                 after == EditedAfter.operator
             IN  /\ EditedAfter.kind = "Count"
                 /\ before.kind = "List" =>
                       after = OperatorGreater(IF before.vec = <<>> THEN 0 ELSE before.vec[1])
                 /\ before.kind = "Greater" => after = OperatorLess(before.bound)
                 /\ before.kind = "Less" => after = OperatorList(<<before.bound>>)
        ELSE grid.ruleset = old.before

\* C31 witness: the operator left a List of two different elements and
\* took the first of them as the bound of Greater
C31_Witness ==
    /\ op = "event"
    /\ call.fn = "ConditionEvent::OperatorChanged"
    /\ EditedBefore = Count(OperatorList(<<2, 3>>))
    /\ EditedAfter = Count(OperatorGreater(2))

\* C32: the elements a CountUpdated event gives a List operator are the
\* ASCII digits of the text, one value each, without the other characters
\* and without the values above 8, in strictly ascending order; a text with
\* no such digit gives the empty List.
C32_CountTextParse ==
    (/\ op = "event"
     /\ call.fn = "ConditionEvent::CountUpdated"
     /\ EditedBefore.kind = "Count"
     /\ EditedBefore.operator.kind = "List") =>
        LET count_string == call.count_string
            vec == EditedAfter.operator.vec
            usable(i) == to_digit(count_string[i]) /= None /\ to_digit(count_string[i])[1] <= 8
        IN  /\ EditedAfter.kind = "Count"
            /\ EditedAfter.operator.kind = "List"
            /\ \A i \in 1..Len(vec) :
                  /\ vec[i] \in 0..8
                  /\ \E j \in 1..Len(count_string) : to_digit(count_string[j]) = Some(vec[i])
            /\ \A j \in 1..Len(count_string) :
                  usable(j) => \E i \in 1..Len(vec) : Some(vec[i]) = to_digit(count_string[j])
            /\ \A i \in 1..(Len(vec) - 1) : vec[i] < vec[i + 1]
            /\ (\A j \in 1..Len(count_string) : ~usable(j)) => vec = <<>>

\* C32 witness: a List operator took the values of a text with commas that
\* repeats a digit and is not ascending
C32_Witness ==
    /\ op = "event"
    /\ call.fn = "ConditionEvent::CountUpdated"
    /\ EditedBefore.kind = "Count"
    /\ EditedBefore.operator.kind = "List"
    /\ call.count_string = <<"8", ",", "0", ",", "8">>
    /\ EditedAfter = Count(OperatorList(<<0, 8>>))

---------------------------------------------------------------------------
(* Conway's Life on the 5x5 grid the application starts with: cells are    *)
(* painted Alive by set_cell, then the grid is stepped.  old holds the     *)
(* cells the first step read and steps counts the steps since then; a      *)
(* set_cell after a step starts the count again.                           *)

\* at most MaxPainted calls of set_cell in one behaviour
MaxPainted == 3
\* at most MaxGenerations calls of next_generation after the last set_cell
MaxGenerations == 4
\* the size of the grid of AppData::new
LifeSize == 5

InitLife ==
    /\ grid = Grid_new(LifeRuleset, LifeSize)
    /\ old = <<>>
    /\ op = "new"
    /\ clicks = 0
    /\ steps = 0
    /\ call = NoCall
    /\ app = NoApp

\* grid.set_cell(x, y, Cell::new(material_id)) on the grid of Life
LifeSetCell(x, y, material_id) ==
    /\ clicks < MaxPainted
    /\ grid' = set_cell(grid, x, y, Cell(material_id))
    /\ old' = <<>>
    /\ op' = "set_cell"
    /\ clicks' = clicks + 1
    /\ steps' = 0
    /\ UNCHANGED <<call, app>>

\* GridEvent::Stepped: grid.next_generation()
LifeStepped ==
    /\ steps < MaxGenerations
    /\ grid' = next_generation(grid)
    /\ old' = IF steps = 0 THEN grid.cells ELSE old
    /\ op' = "next_generation"
    /\ steps' = steps + 1
    /\ UNCHANGED <<clicks, call, app>>

NextLife ==
    \/ \E x \in 0..(grid.size - 1), y \in 0..(grid.size - 1) : LifeSetCell(x, y, 2)
    \/ LifeStepped

SpecLife == InitLife /\ [][NextLife]_vars

\* the cells of a grid of Life of size LifeSize whose Alive cells are those
\* at the given coordinates
LifeCells(alive) ==
    [i \in 1..(LifeSize * LifeSize) |->
        IF <<(i - 1) % LifeSize, (i - 1) \div LifeSize>> \in alive THEN Cell(2) ELSE Cell(1)]

HorizontalBlinker == LifeCells({<<1, 2>>, <<2, 2>>, <<3, 2>>})
VerticalBlinker == LifeCells({<<2, 1>>, <<2, 2>>, <<2, 3>>})

\* C21: under the rules of Life, the 5x5 grid whose only alive cells are
\* (1,2), (2,2), (3,2) has exactly (2,1), (2,2), (2,3) alive after one step,
\* and is back in the initial configuration after every even number of steps.
C21_BlinkerPeriod2 ==
    (op = "next_generation" /\ old = HorizontalBlinker) =>
        /\ steps = 1 => grid.cells = VerticalBlinker
        /\ steps % 2 = 0 => grid.cells = HorizontalBlinker
        /\ steps % 2 = 1 => grid.cells = VerticalBlinker

\* C21 witness: the blinker has been stepped four times
C21_Witness ==
    /\ op = "next_generation"
    /\ old = HorizontalBlinker
    /\ steps = 4
    /\ grid.cells = HorizontalBlinker

---------------------------------------------------------------------------
(* Dangling references: GroupEvent::Deleted removes a group and leaves the *)
(* rules that name its handle as they are.  A grid is built over a rule    *)
(* set that has lost a group, painted and stepped.                         *)

\* the rule sets after a deletion: Groups without either of its groups, and
\* Dangling, whose group 99 is gone
DeletedGroupRulesets ==
    {DanglingRuleset}
        \cup {[GroupsRuleset EXCEPT !.groups = Vec_remove(@, group_index)] :
                 group_index \in 0..(Len(GroupsRuleset.groups) - 1)}

InitDangling ==
    /\ \E ruleset \in DeletedGroupRulesets, size \in 1..MaxSize :
          grid = Grid_new(ruleset, size)
    /\ old = <<>>
    /\ op = "new"
    /\ clicks = 0
    /\ steps = 0
    /\ call = NoCall
    /\ app = NoApp

SpecDangling == InitDangling /\ [][Next]_vars

\* whether a pattern names a group handle that no group of the rule set has
Dangling(pattern, ruleset) ==
    /\ pattern.kind = "Group"
    /\ \A i \in 1..Len(ruleset.groups) : ruleset.groups[i].id /= pattern.id

\* the rules of a list whose input is not dangling, in order
RECURSIVE ResolvedRules(_, _)
ResolvedRules(rules, ruleset) ==
    IF rules = <<>>
    THEN <<>>
    ELSE (IF Dangling(Head(rules).input, ruleset) THEN <<>> ELSE <<Head(rules)>>)
             \o ResolvedRules(Tail(rules), ruleset)

\* C22: with rules that refer to a deleted group, next_generation completes;
\* a rule whose input is the dangling group fires for no cell, so the step
\* is the step of the rule set without those rules; and a condition on the
\* dangling group evaluates as with a pattern that matches no neighbor:
\* Directional never matches and Count matches iff the operator admits 0.
C22_DanglingReferences ==
    op = "next_generation" =>
        /\ Len(grid.cells) = Len(old)
        /\ \A p \in Indices(OldGrid), i \in 1..Len(grid.ruleset.rules) :
              LET rule == grid.ruleset.rules[i]
              IN  /\ Dangling(rule.input, grid.ruleset) => i \notin Firing(OldGrid, p)
                  /\ \A c \in 1..Len(rule.conditions) :
                        LET condition == rule.conditions[c]
                        IN  Dangling(condition.pattern, grid.ruleset) =>
                               (Condition_matches(condition, neighbors(OldGrid, p),
                                                  grid.ruleset)
                                <=> /\ condition.variant.kind = "Count"
                                    /\ ExpectedOperator(condition.variant.operator, 0))
        /\ grid.cells =
              next_generation([OldGrid EXCEPT
                  !.ruleset.rules = ResolvedRules(@, grid.ruleset)]).cells

\* C22 witness: a step over a rule set with a rule whose input dangles, in
\* which a cell that has neighbors was changed by a rule whose condition is
\* on a dangling group
C22_Witness ==
    /\ op = "next_generation"
    /\ grid.size > 1
    /\ \E i \in 1..Len(grid.ruleset.rules) : Dangling(grid.ruleset.rules[i].input, grid.ruleset)
    /\ \E p \in Indices(OldGrid) :
          /\ grid.cells[p + 1] /= old[p + 1]
          /\ \E i \in Firing(OldGrid, p) :
                /\ \A j \in Firing(OldGrid, p) : i <= j
                /\ \E c \in 1..Len(grid.ruleset.rules[i].conditions) :
                      Dangling(grid.ruleset.rules[i].conditions[c].pattern, grid.ruleset)

---------------------------------------------------------------------------
(* The order of the rules: a grid over a rule set of several rules is      *)
(* painted and stepped, and the step is compared with the step of the same *)
(* grid over the rule set with two of its rules swapped.                   *)

\* the rule sets of two rules or more with groups that resolve
OrderedRulesets == {LifeRuleset, TestRuleset, GroupsRuleset}

InitOrder ==
    /\ \E ruleset \in OrderedRulesets, size \in 1..MaxSize : grid = Grid_new(ruleset, size)
    /\ old = <<>>
    /\ op = "new"
    /\ clicks = 0
    /\ steps = 0
    /\ call = NoCall
    /\ app = NoApp

SpecOrder == InitOrder /\ [][Next]_vars

\* no cell material matches both patterns
Exclusive(a, b, ruleset) ==
    \A material_id \in MaterialIds(ruleset) :
        ~(/\ ExpectedPattern(a, ruleset, Cell(material_id))
          /\ ExpectedPattern(b, ruleset, Cell(material_id)))

\* the rule list with the rules at positions i and j swapped
Swapped(rules, i, j) == [rules EXCEPT ![i] = rules[j], ![j] = rules[i]]

\* the cells after a step of g over its rule set with rules i and j swapped
SwappedStep(g, i, j) ==
    next_generation([g EXCEPT !.ruleset.rules = Swapped(@, i, j)]).cells

\* C28: if no cell material matches the inputs of two rules, swapping the
\* positions of the two in the rule list yields the same grid after
\* next_generation, for every grid.
C28_ExclusiveRulesCommute ==
    op = "next_generation" =>
        \A i, j \in 1..Len(grid.ruleset.rules) :
            Exclusive(grid.ruleset.rules[i].input, grid.ruleset.rules[j].input, grid.ruleset)
            => SwappedStep(OldGrid, i, j) = grid.cells

\* C28, amended: two rules with mutually exclusive inputs commute when the
\* input of every rule that lies between them in the list is exclusive with
\* the inputs of both; so two adjacent rules with exclusive inputs commute.
C28_ExclusiveRulesCommuteUnlessBetween ==
    op = "next_generation" =>
        \A i, j \in 1..Len(grid.ruleset.rules) :
            LET rules == grid.ruleset.rules
            IN  (/\ i < j
                 /\ Exclusive(rules[i].input, rules[j].input, grid.ruleset)
                 /\ \A k \in (i + 1)..(j - 1) :
                       /\ Exclusive(rules[k].input, rules[i].input, grid.ruleset)
                       /\ Exclusive(rules[k].input, rules[j].input, grid.ruleset))
                => SwappedStep(OldGrid, i, j) = grid.cells

\* C28 witness: a step that changed a cell by one of two adjacent rules with
\* exclusive inputs and different outputs
C28_Witness ==
    /\ op = "next_generation"
    /\ \E i \in 1..(Len(grid.ruleset.rules) - 1) :
          LET rules == grid.ruleset.rules
          IN  /\ Exclusive(rules[i].input, rules[i + 1].input, grid.ruleset)
              /\ rules[i].output /= rules[i + 1].output
              /\ \E p \in Indices(OldGrid) :
                    /\ grid.cells[p + 1] /= old[p + 1]
                    /\ \E f \in {i, i + 1} :
                          /\ f \in Firing(OldGrid, p)
                          /\ \A g \in Firing(OldGrid, p) : f <= g

---------------------------------------------------------------------------
(* The text form of a Pattern (src/src/pattern.rs).  A text is a sequence  *)
(* of characters; a result is Ok(value), Err, or a panic of the thread.    *)

\* texts handed to the decoder hold at most MaxPatternText characters
MaxPatternText == 3

Ok(value) == [kind |-> "Ok", value |-> Some(value)]
Err == [kind |-> "Err", value |-> None]
Panic == [kind |-> "Panic", value |-> None]

DecimalDigits == <<"0", "1", "2", "3", "4", "5", "6", "7", "8", "9">>

\* Display for u32: the decimal digits of n, most significant first
RECURSIVE u32_to_string(_)
u32_to_string(n) ==
    IF n < 10
    THEN <<DecimalDigits[n + 1]>>
    ELSE u32_to_string(n \div 10) \o <<DecimalDigits[(n % 10) + 1]>>

\* the digits of a text folded into a number, most significant first; None
\* at a character that is no decimal digit.  No text drawn is long enough
\* to leave the range of u32.
RECURSIVE parse_digits(_, _)
parse_digits(s, result) ==
    IF s = <<>>
    THEN Some(result)
    ELSE IF to_digit(Head(s)) = None
         THEN None
         ELSE parse_digits(Tail(s), result * 10 + to_digit(Head(s))[1])

\* str::parse::<u32>: an empty text and a lone sign are errors; one leading
\* '+' is accepted
u32_from_str(s) ==
    IF s = <<>>
    THEN None
    ELSE IF Head(s) = "+"
         THEN (IF Tail(s) = <<>> THEN None ELSE parse_digits(Tail(s), 0))
         ELSE parse_digits(s, 0)

\* char::len_utf8 of the characters drawn
len_utf8(char) == IF char = "é" THEN 2 ELSE 1

\* str::len: the length of a text in bytes
RECURSIVE str_len(_)
str_len(s) == IF s = <<>> THEN 0 ELSE len_utf8(Head(s)) + str_len(Tail(s))

\* (variant of Serialize for Pattern: both kinds are written with 'm')
Pattern_serialize_all_m(pattern) ==
    u32_to_string(pattern.id) \o <<"m">>

\* Serialize for Pattern: format!("{id}m") or format!("{id}g")
Pattern_serialize(pattern) ==
    IF pattern.kind = "Material"
    THEN u32_to_string(pattern.id) \o <<"m">>
    ELSE u32_to_string(pattern.id) \o <<"g">>

\* PatternVisitor::visit_str.  v.len() - 1 is below 0 for the empty text:
\* the subtraction panics where overflow is checked, and split_at panics on
\* the wrapped index where it is not.  split_at also panics when the byte
\* index v.len() - 1 is not at the start of the last character.
visit_str(v) ==
    IF v = <<>>
    THEN Panic
    ELSE IF len_utf8(v[Len(v)]) /= 1
         THEN Panic
         ELSE LET id == u32_from_str(SubSeq(v, 1, Len(v) - 1))
                  suffix == v[Len(v)]
              IN  IF id = None
                  THEN Err
                  ELSE CASE suffix = "m" -> Ok(PatternMaterial(id[1]))
                         [] suffix = "g" -> Ok(PatternGroup(id[1]))
                         [] OTHER -> Err

\* the handles of the patterns written
WrittenHandles == {0, 7, 10, 42, 123, 4567}

\* the characters of the texts read
PatternChars == {"0", "1", "7", "m", "g", "x", "+", "é"}

\* the texts read
PatternTexts == UNION {[1..n -> PatternChars] : n \in 0..MaxPatternText}

InitText ==
    /\ grid = Grid_new(DirectionalRuleset, 1)
    /\ old = <<>>
    /\ op = "new"
    /\ clicks = 0
    /\ steps = 0
    /\ call = NoCall
    /\ app = NoApp

\* pattern.serialize(serializer), and the text read back
CallPatternSerialize(pattern) ==
    /\ op = "new"
    /\ call' = [fn |-> "Pattern::serialize", pattern |-> pattern,
                ret |-> Pattern_serialize(pattern),
                back |-> visit_str(Pattern_serialize(pattern))]
    /\ op' = "call"
    /\ UNCHANGED <<grid, old, clicks, steps, app>>

\* PatternVisitor.visit_str(v)
CallVisitStr(v) ==
    /\ op = "new"
    /\ call' = [fn |-> "PatternVisitor::visit_str", v |-> v, ret |-> visit_str(v)]
    /\ op' = "call"
    /\ UNCHANGED <<grid, old, clicks, steps, app>>

NextText ==
    \/ \E id \in WrittenHandles :
          \/ CallPatternSerialize(PatternMaterial(id))
          \/ CallPatternSerialize(PatternGroup(id))
    \/ \E v \in PatternTexts : CallVisitStr(v)

SpecText == InitText /\ [][NextText]_vars

\* whether a text is the decimal numeral of n: digits only, no leading zero
\* but for "0", and the positional value n
RECURSIVE PositionalValue(_)
PositionalValue(s) ==
    IF s = <<>>
    THEN 0
    ELSE 10 * PositionalValue(SubSeq(s, 1, Len(s) - 1))
             + (CHOOSE d \in 0..9 : DecimalDigits[d + 1] = s[Len(s)])

IsNumeral(s, n) ==
    /\ s /= <<>>
    /\ \A i \in 1..Len(s) : \E d \in 0..9 : DecimalDigits[d + 1] = s[i]
    /\ Len(s) > 1 => s[1] /= "0"
    /\ PositionalValue(s) = n

\* whether a text is a sign-free or '+'-signed run of decimal digits
IsU32Text(s) ==
    \E start \in {1, 2} :
        /\ start = 2 => (s /= <<>> /\ s[1] = "+")
        /\ Len(s) >= start
        /\ \A i \in start..Len(s) : \E d \in 0..9 : DecimalDigits[d + 1] = s[i]

\* the serialized form and the round trip of C27
C27_Written ==
    (op = "call" /\ call.fn = "Pattern::serialize") =>
        /\ IsNumeral(SubSeq(call.ret, 1, Len(call.ret) - 1), call.pattern.id)
        /\ call.ret[Len(call.ret)] = (IF call.pattern.kind = "Material" THEN "m" ELSE "g")
        /\ call.back = Ok(call.pattern)

\* the rejections of C27
C27_Rejected ==
    (op = "call" /\ call.fn = "PatternVisitor::visit_str") =>
        ((\/ call.v = <<>>
          \/ call.v[Len(call.v)] \notin {"m", "g"}
          \/ ~IsU32Text(SubSeq(call.v, 1, Len(call.v) - 1)))
         => call.ret = Err)

\* C27: a pattern serializes to its decimal handle followed by 'm' or 'g',
\* decoding that text returns the pattern, and decoding a text whose last
\* character is not 'm' or 'g' (the empty text included) or whose prefix is
\* not a u32 is rejected with an error value, not by aborting.
C27_PatternText == C27_Written /\ C27_Rejected

\* what is left of the rejections of C27 for the texts that are not empty
\* and end in a one-byte character
C27_RejectedUnlessPanic ==
    (op = "call" /\ call.fn = "PatternVisitor::visit_str") =>
        /\ call.ret = Panic <=> (call.v = <<>> \/ len_utf8(call.v[Len(call.v)]) /= 1)
        /\ (/\ call.v /= <<>>
            /\ len_utf8(call.v[Len(call.v)]) = 1
            /\ \/ call.v[Len(call.v)] \notin {"m", "g"}
               \/ ~IsU32Text(SubSeq(call.v, 1, Len(call.v) - 1)))
           => call.ret = Err

---------------------------------------------------------------------------
(* Serialization of a rule set (src/src/ruleset.rs, src/src/material.rs,   *)
(* src/src/condition.rs).  The serialized form is the tree of maps,        *)
(* sequences, numbers and texts the Serialize impls hand to the format;    *)
(* the derived impls of ConditionVariant, Operator and Direction write and *)
(* read that tree as it is, the hand-written ones convert: a Pattern and a *)
(* MaterialColor are written as texts, a handle as its u32.  The maps read *)
(* are those written, so every field is there exactly once.                *)

HexDigits ==
    <<"0", "1", "2", "3", "4", "5", "6", "7", "8", "9", "A", "B", "C", "D", "E", "F">>

\* (variant of {:02X}: no padding to two digits)
u8_to_hex_unpadded(n) ==
    IF n < 16 THEN <<HexDigits[n + 1]>> ELSE <<HexDigits[(n \div 16) + 1], HexDigits[(n % 16) + 1]>>

\* {:02X} of a u8
u8_to_hex(n) == <<HexDigits[(n \div 16) + 1], HexDigits[(n % 16) + 1]>>

\* Display for MaterialColor: "#{:02X}{:02X}{:02X}"
MaterialColor_to_string(color) ==
    <<"#">> \o u8_to_hex(color.r) \o u8_to_hex(color.g) \o u8_to_hex(color.b)

\* MaterialColorVisitor::visit_str: v.parse().map_err(custom)
MaterialColorVisitor_visit_str(v) ==
    IF MaterialColor_from_str(v) = None THEN Err ELSE Ok(MaterialColor_from_str(v)[1])

\* the results of reading the elements of a sequence: the first failure, or
\* Ok of the values
Collected(results) ==
    LET failed == {i \in 1..Len(results) : results[i].kind /= "Ok"}
    IN  IF failed /= {}
        THEN results[CHOOSE i \in failed : \A j \in failed : i <= j]
        ELSE Ok([i \in 1..Len(results) |-> results[i].value[1]])

\* Serialize for Material (derived): id as u32, name, color as text
Material_serialize(material) ==
    [id |-> material.id, name |-> material.name,
     color |-> MaterialColor_to_string(material.color)]

\* MaterialVisitor::visit_map
MaterialVisitor_visit_map(map) ==
    LET color == MaterialColorVisitor_visit_str(map.color)
    IN  IF color.kind /= "Ok"
        THEN color
        ELSE Ok(Material(map.id, map.name, color.value[1]))

\* Serialize for MaterialGroup (derived): id and materials as u32
MaterialGroup_serialize(group) ==
    [id |-> group.id, name |-> group.name, materials |-> group.materials]

\* MaterialGroupVisitor::visit_map
MaterialGroupVisitor_visit_map(map) ==
    Ok(MaterialGroup(map.id, map.name, map.materials))

\* Serialize for Condition (derived): the pattern as text
Condition_serialize(condition) ==
    [variant |-> condition.variant, pattern |-> Pattern_serialize(condition.pattern),
     inverted |-> condition.inverted]

\* Deserialize for Condition (derived)
Condition_deserialize(map) ==
    LET pattern == visit_str(map.pattern)
    IN  IF pattern.kind /= "Ok"
        THEN pattern
        ELSE Ok(Condition(map.variant, pattern.value[1], map.inverted))

\* Serialize for Rule (derived): the input as text, the output as u32
Rule_serialize(rule) ==
    [input |-> Pattern_serialize(rule.input), output |-> rule.output,
     conditions |-> [i \in 1..Len(rule.conditions) |-> Condition_serialize(rule.conditions[i])]]

\* RuleVisitor::visit_map
RuleVisitor_visit_map(map) ==
    LET input == visit_str(map.input)
        conditions ==
            Collected([i \in 1..Len(map.conditions) |-> Condition_deserialize(map.conditions[i])])
    IN  IF input.kind /= "Ok"
        THEN input
        ELSE IF conditions.kind /= "Ok"
             THEN conditions
             ELSE Ok(Rule(input.value[1], map.output, conditions.value[1]))

\* Serialize for Ruleset (derived), as Ruleset::save writes it
Ruleset_serialize(ruleset) ==
    [name |-> ruleset.name,
     rules |-> [i \in 1..Len(ruleset.rules) |-> Rule_serialize(ruleset.rules[i])],
     materials |-> [i \in 1..Len(ruleset.materials) |-> Material_serialize(ruleset.materials[i])],
     groups |-> [i \in 1..Len(ruleset.groups) |-> MaterialGroup_serialize(ruleset.groups[i])]]

\* Deserialize for Ruleset (derived), as Ruleset::load_all reads it
Ruleset_deserialize(map) ==
    LET rules == Collected([i \in 1..Len(map.rules) |-> RuleVisitor_visit_map(map.rules[i])])
        materials ==
            Collected([i \in 1..Len(map.materials) |->
                          MaterialVisitor_visit_map(map.materials[i])])
        groups ==
            Collected([i \in 1..Len(map.groups) |-> MaterialGroupVisitor_visit_map(map.groups[i])])
    IN  IF rules.kind /= "Ok"
        THEN rules
        ELSE IF materials.kind /= "Ok"
             THEN materials
             ELSE IF groups.kind /= "Ok"
                  THEN groups
                  ELSE Ok(Ruleset(map.name, rules.value[1], materials.value[1],
                                  groups.value[1]))

\* the rule sets saved: one or two materials, none to two groups, rules
\* with Material and Group patterns, Directional and Count conditions
SavedColors == {MaterialColor_DEFAULT, MaterialColor(255, 255, 255), MaterialColor(18, 171, 5)}

SavedMaterials ==
    {<<Material(0, "Empty", color)>> : color \in SavedColors}
        \cup {<<Material(1, "Dead", MaterialColor_DEFAULT), Material(4567, "Alive", color)>> :
                 color \in SavedColors}

SavedGroups ==
    {<<>>,
     <<MaterialGroup(10, "Live", <<4567>>)>>,
     <<MaterialGroup(10, "", <<>>), MaterialGroup(123, "Both", <<1, 4567, 1>>)>>}

SavedConditions ==
    {Condition(variant, pattern, inverted) :
        variant \in {Directional(<<>>), Directional(<<"North", "East">>),
                     Count(OperatorList(<<2, 3>>)), Count(OperatorGreater(5)),
                     Count(OperatorLess(255))},
        pattern \in {PatternMaterial(1), PatternGroup(10), PatternGroup(0)},
        inverted \in BOOLEAN}

SavedRules ==
    {<<>>}
        \cup {<<Rule(input, 4567, <<condition>>)>> :
                 input \in {PatternMaterial(0), PatternGroup(123)},
                 condition \in SavedConditions}
        \cup {<<Rule(PatternGroup(10), 1, <<condition, Condition_new(DirectionalRuleset)>>),
                Rule(PatternMaterial(4567), 0, <<>>)>> :
                 condition \in SavedConditions}

SavedRulesets ==
    {Ruleset("Saved", rules, materials, groups) :
        rules \in SavedRules, materials \in SavedMaterials, groups \in SavedGroups}

InitSerde ==
    /\ \E ruleset \in SavedRulesets : grid = Grid_new(ruleset, 1)
    /\ old = <<>>
    /\ op = "new"
    /\ clicks = 0
    /\ steps = 0
    /\ call = NoCall
    /\ app = NoApp

\* RulesetEvent::Saved, then the file read back as RulesetEvent::Reloaded does
CallSavedAndLoaded ==
    /\ op = "new"
    /\ call' = [fn |-> "Ruleset::save", written |-> Ruleset_serialize(grid.ruleset),
                ret |-> Ruleset_deserialize(Ruleset_serialize(grid.ruleset))]
    /\ op' = "call"
    /\ UNCHANGED <<grid, old, clicks, steps, app>>

NextSerde == CallSavedAndLoaded

SpecSerde == InitSerde /\ [][NextSerde]_vars

\* C26: for every rule set rs, with materials, groups, rules with Material
\* and Group patterns, Directional and Count conditions and inverted flags,
\* Deserialize(Serialize(rs)) = rs.
C26_SerializationRoundTrip ==
    (op = "call" /\ call.fn = "Ruleset::save") => call.ret = Ok(grid.ruleset)

\* C26 witness: a rule set with two materials, one not black, two groups and
\* two rules, with a Group input and an inverted Count condition on a group,
\* has been written and read back
C26_Witness ==
    /\ op = "call"
    /\ call.fn = "Ruleset::save"
    /\ call.ret.kind = "Ok"
    /\ Len(grid.ruleset.materials) = 2
    /\ grid.ruleset.materials[2].color = MaterialColor(18, 171, 5)
    /\ Len(grid.ruleset.groups) = 2
    /\ Len(grid.ruleset.rules) = 2
    /\ grid.ruleset.rules[1].input.kind = "Group"
    /\ grid.ruleset.rules[1].conditions[1] =
          Condition(Count(OperatorLess(255)), PatternGroup(10), TRUE)
    /\ call.written.rules[1].conditions[1].pattern = <<"1", "0", "g">>
    /\ call.written.materials[2].color = <<"#", "1", "2", "A", "B", "0", "5">>

---------------------------------------------------------------------------
(* The application (src/src/main.rs): AppData holds the screen, which is   *)
(* either Screen::Grid(grid) or Screen::Editor(ruleset), the material the  *)
(* left button paints, the size of the next grid and the saved state.  The *)
(* variable grid holds the grid on screen, or (EditorScreen) the rule set  *)
(* in the editor; old records the rule set before the last event and, as   *)
(* taken, the size and cells of the grid when its state was last saved.    *)

\* the grids of the application have size 1..MaxAppSize
MaxAppSize == 2

\* Screen::Editor(ruleset)
EditorScreen(ruleset) == [ruleset |-> ruleset, cells |-> <<>>, size |-> 0]

\* (variant of Grid::functional_state: the cells are those of a new grid)
functional_state_new(g) ==
    [size |-> g.size, cells |-> Grid_new(g.ruleset, g.size).cells]

\* Grid::functional_state
functional_state(g) == [size |-> g.size, cells |-> g.cells]

\* (variant of Grid::load_state: the cells are left as they are)
load_state_size(g, state) == [g EXCEPT !.size = state.size]

\* (variant of Grid::load_state: the size is left as it is)
load_state_cells(g, state) == [g EXCEPT !.cells = state.cells]

\* Grid::load_state
load_state(g, state) == [g EXCEPT !.size = state.size, !.cells = state.cells]

\* (variant of the view: the editor's controls are there on either screen)
EditorShown_always == app.screen \in {"Grid", "Editor"}

\* the view: ruleset_editor is built while editor_enabled is set, game_board
\* otherwise, so the events of the editor's controls arrive while the
\* screen is Screen::Editor
EditorShown == app.screen = "Editor"

\* the events one run of the application handles
MaxAppEvents == 4

\* the rule sets of the application
AppRulesets == {TestRuleset, GroupsRuleset}

InitApp ==
    /\ \E ruleset \in AppRulesets, size \in 1..MaxAppSize :
       \E material_id \in MaterialIds(ruleset) :
          /\ grid = Grid_new(ruleset, size)
          /\ app = [screen |-> "Grid", selected_material |-> material_id,
                    grid_size |-> size, saved_state |-> None]
          /\ old = [created |-> ruleset, before |-> ruleset, removals |-> 0, taken |-> None]
    /\ op = "new"
    /\ clicks = 0
    /\ steps = 0
    /\ call = NoCall

\* the common part of the handlers of the events of the game board and of
\* the switch between the screens
AppHandled(event) ==
    /\ clicks < MaxAppEvents
    /\ call' = event
    /\ op' = "event"
    /\ clicks' = clicks + 1
    /\ UNCHANGED steps

\* UpdateEvent::CellHovered { x, y } with a button held, and the
\* UpdateEvent::CellClicked(button) it emits
CellClicked(x, y, button) ==
    LET new_material == IF button = "Left"
                        THEN app.selected_material
                        ELSE MaterialMap_default(grid.ruleset.materials).id
        index == cell_index(grid, x, y)
    IN  /\ AppHandled([fn |-> "UpdateEvent::CellClicked", x |-> x, y |-> y,
                       button |-> button])
        /\ grid' = IF app.screen /= "Grid"
                   THEN grid
                   ELSE set_cell(grid, index % grid.size, index \div grid.size,
                                 Cell(new_material))
        /\ old' = [old EXCEPT !.before = grid.ruleset]
        /\ UNCHANGED app

\* GridEvent::Stepped
Stepped ==
    /\ AppHandled([fn |-> "GridEvent::Stepped"])
    /\ grid' = IF app.screen = "Grid" THEN next_generation(grid) ELSE grid
    /\ old' = [old EXCEPT !.before = grid.ruleset]
    /\ UNCHANGED app

\* GridEvent::Resized(size)
AppResized(size) ==
    /\ AppHandled([fn |-> "GridEvent::Resized", size |-> size])
    /\ app' = [app EXCEPT !.grid_size = size]
    /\ grid' = IF app.screen = "Grid" THEN Grid_new(grid.ruleset, size) ELSE grid
    /\ old' = [old EXCEPT !.before = grid.ruleset]

\* GridEvent::StateSaved
StateSaved ==
    /\ AppHandled([fn |-> "GridEvent::StateSaved"])
    /\ app' = IF app.screen = "Grid"
              THEN [app EXCEPT !.saved_state = Some(functional_state(grid))]
              ELSE app
    /\ old' = [old EXCEPT !.before = grid.ruleset,
                          !.taken = IF app.screen = "Grid"
                                    THEN Some([size |-> grid.size, cells |-> grid.cells])
                                    ELSE @]
    /\ UNCHANGED grid

\* GridEvent::StateLoaded
StateLoaded ==
    /\ AppHandled([fn |-> "GridEvent::StateLoaded"])
    /\ grid' = IF app.screen = "Grid" /\ app.saved_state /= None
               THEN load_state(grid, app.saved_state[1])
               ELSE grid
    /\ old' = [old EXCEPT !.before = grid.ruleset]
    /\ UNCHANGED app

\* EditorEvent::Enabled
EditorEnabled ==
    /\ AppHandled([fn |-> "EditorEvent::Enabled"])
    /\ app' = [app EXCEPT !.saved_state = None, !.screen = "Editor"]
    /\ grid' = EditorScreen(grid.ruleset)
    /\ old' = [old EXCEPT !.before = grid.ruleset, !.taken = None]

\* EditorEvent::Disabled
EditorDisabled ==
    /\ AppHandled([fn |-> "EditorEvent::Disabled"])
    /\ app' = [app EXCEPT !.screen = "Grid"]
    /\ grid' = Grid_new(grid.ruleset, app.grid_size)
    /\ old' = [old EXCEPT !.before = grid.ruleset]

\* the events of the game board's controls; the timer sends Stepped on
\* either screen
GameBoardEvent ==
    \/ \E x \in 0..(grid.size - 1), y \in 0..(grid.size - 1), button \in {"Left", "Right"} :
          CellClicked(x, y, button)
    \/ \E size \in 1..MaxAppSize : AppResized(size)
    \/ StateSaved
    \/ app.saved_state /= None /\ StateLoaded
    \/ EditorEnabled

\* the events of the editor's controls
EditorControlEvent ==
    \/ EditorDisabled
    \/ MaterialCreated
    \/ \E name \in NameTexts : MaterialRenamed(0, name)
    \/ \E group_index \in UpTo(grid.ruleset.groups) : GroupDeleted(group_index)
    \/ RuleCreated

NextApp ==
    \/ ~EditorShown /\ GameBoardEvent
    \/ EditorShown /\ EditorControlEvent
    \/ Stepped

SpecApp == InitApp /\ [][NextApp]_vars

\* C23: load_state(s) replaces the size and the cells of the grid with
\* those of the snapshot s and leaves the rule set of the grid unchanged.
C23_LoadStateFrame ==
    (op = "event" /\ call.fn = "GridEvent::StateLoaded"
        /\ app.screen = "Grid" /\ app.saved_state /= None) =>
        /\ grid.size = app.saved_state[1].size
        /\ grid.cells = app.saved_state[1].cells
        /\ grid.ruleset = old.before

\* C23 witness: a state was loaded into a grid of another size
C23_Witness ==
    /\ op = "event"
    /\ call.fn = "GridEvent::StateLoaded"
    /\ app.screen = "Grid"
    /\ app.saved_state /= None
    /\ app.grid_size /= grid.size
    /\ grid.cells = app.saved_state[1].cells

\* C24: a snapshot taken by functional_state is independent of the grid: a
\* later set_cell, next_generation or load_state on the grid leaves it as it
\* was taken, and load_state of the snapshot restores the size and the cells
\* the grid had when it was taken, at every load.
C24_SnapshotIndependent ==
    /\ app.screen = "Grid" => app.saved_state = old.taken
    /\ (op = "event" /\ call.fn = "GridEvent::StateLoaded"
          /\ app.screen = "Grid" /\ old.taken /= None) =>
          /\ grid.size = old.taken[1].size
          /\ grid.cells = old.taken[1].cells

\* C24 witness: a state was saved, the grid was changed, and the load has
\* brought back the cells that were saved
C24_Witness ==
    /\ op = "event"
    /\ call.fn = "GridEvent::StateLoaded"
    /\ app.screen = "Grid"
    /\ old.taken /= None
    /\ grid.cells = old.taken[1].cells
    /\ grid.cells /= Grid_new(grid.ruleset, grid.size).cells
    /\ clicks = 3

\* C36: the cell array of the grid on screen has exactly size * size
\* elements: Grid::new makes it so, and set_cell, next_generation and
\* load_state of a snapshot that functional_state took keep it so.
C36_CellCount ==
    app.screen = "Grid" => Len(grid.cells) = grid.size * grid.size

\* C36 witness: a grid of size 2 with a painted cell has loaded the state
\* saved from a grid of size 1
C36_Witness ==
    /\ app.screen = "Grid"
    /\ op = "event"
    /\ call.fn = "GridEvent::StateLoaded"
    /\ app.grid_size = 2
    /\ old.taken /= None
    /\ old.taken[1].size = 1
    /\ grid.size = 1
    /\ Len(grid.cells) = 1

\* whether an event record is one of the rule-set edit events
IsEdit(event) ==
    event.fn \in {"MaterialEvent::Created", "MaterialEvent::Renamed", "GroupEvent::Deleted",
                  "RuleEvent::Created"}

\* C25: a Grid owns its copy of the rule set: no edit event changes the rule
\* set of a Grid that exists; a Grid keeps the rule set it was created with
\* until it is re-created, and the edits made in the editor reach the
\* simulation with the Grid that EditorEvent::Disabled creates.
C25_GridOwnsRuleset ==
    [][/\ (app.screen = "Grid" /\ app'.screen = "Grid") => grid'.ruleset = grid.ruleset
       /\ IsEdit(call') => (app.screen = "Editor" /\ app'.screen = "Editor")
       /\ (app.screen = "Editor" /\ app'.screen = "Grid") =>
             grid' = Grid_new(grid.ruleset, app.grid_size)]_vars

\* C25 witness: a grid runs over a rule set that was edited in the editor
C25_Witness ==
    /\ app.screen = "Grid"
    /\ op = "event"
    /\ call.fn = "EditorEvent::Disabled"
    /\ grid.ruleset /= old.created

---------------------------------------------------------------------------
(* The rule list: a rule set is on screen in the editor and the buttons of *)
(* its rules copy and delete them.  A RuleIndex names a rule by its        *)
(* position, as a ConditionIndex names a condition.                        *)

\* RuleIndex::value: the position the index holds
RuleIndex_value(index) == index

\* RuleIndex::rule: the rule at that position
RuleIndex_rule(index, ruleset) == ruleset.rules[RuleIndex_value(index) + 1]

\* (variant of Vec::insert: the element goes to the end)
Vec_insert_pushed(vec, index, element) == Append(vec, element)

\* Vec::insert(index, element), index 0-based and at most the length
Vec_insert(vec, index, element) ==
    SubSeq(vec, 1, index) \o <<element>> \o SubSeq(vec, index + 1, Len(vec))

InitRules ==
    /\ \E ruleset \in Rulesets :
          /\ grid = Grid_new(ruleset, 1)
          /\ old = [created |-> ruleset, before |-> ruleset, removals |-> 0]
    /\ op = "new"
    /\ clicks = 0
    /\ steps = 0
    /\ call = NoCall
    /\ app = NoApp

\* RuleEvent::Copied(index), sent by the copy button of a rule
RuleCopied(index) ==
    /\ RuleIndex_value(index) < Len(grid.ruleset.rules)
    /\ Handled([fn |-> "RuleEvent::Copied", index |-> index],
               [grid.ruleset EXCEPT
                   !.rules = Vec_insert(@, RuleIndex_value(index),
                                        RuleIndex_rule(index, grid.ruleset))])

\* RuleEvent::Deleted(index), sent by the trash button of a rule
RuleDeleted(index) ==
    /\ RuleIndex_value(index) < Len(grid.ruleset.rules)
    /\ Handled([fn |-> "RuleEvent::Deleted", index |-> index],
               [grid.ruleset EXCEPT !.rules = Vec_remove(@, RuleIndex_value(index))])

NextRules ==
    \/ RuleCreated
    \/ \E index \in UpTo(grid.ruleset.rules) : RuleCopied(index)
    \/ \E index \in UpTo(grid.ruleset.rules) : RuleDeleted(index)

SpecRules == InitRules /\ [][NextRules]_vars

\* C33: Copied(i) leaves a copy of rule i next to rule i, so that the list
\* is one rule longer and the other rules are in the order they were in;
\* Deleted(i) takes out rule i alone and the other rules are in the order
\* they were in; neither changes the materials or the groups.
C33_RuleListEdits ==
    LET before == old.before.rules
        after == grid.ruleset.rules
        i == call.index + 1
    IN  /\ (op = "event" /\ call.fn = "RuleEvent::Copied") =>
              /\ Len(after) = Len(before) + 1
              /\ after[i] = before[i]
              /\ after[i + 1] = before[i]
              /\ \A j \in 1..Len(before) :
                    after[IF j <= i THEN j ELSE j + 1] = before[j]
              /\ grid.ruleset.materials = old.before.materials
              /\ grid.ruleset.groups = old.before.groups
        /\ (op = "event" /\ call.fn = "RuleEvent::Deleted") =>
              /\ Len(after) = Len(before) - 1
              /\ \A j \in 1..Len(after) :
                    after[j] = before[IF j < i THEN j ELSE j + 1]
              /\ grid.ruleset.materials = old.before.materials
              /\ grid.ruleset.groups = old.before.groups

\* C33 witness: the first of three different rules was copied, and the
\* other two follow the two copies in their order
C33_Witness ==
    /\ op = "event"
    /\ call.fn = "RuleEvent::Copied"
    /\ call.index = 0
    /\ Len(old.before.rules) = 3
    /\ old.before.rules[1] /= old.before.rules[2]
    /\ old.before.rules[2] /= old.before.rules[3]
    /\ grid.ruleset.rules =
          <<old.before.rules[1], old.before.rules[1], old.before.rules[2], old.before.rules[3]>>

---------------------------------------------------------------------------
(* A session of the application, from AppData::new: the grid is a new grid *)
(* over a blank rule set, the list of rule sets is what Ruleset::load_all  *)
(* read from ./rulesets/, and the toolbar of the editor selects, creates,  *)
(* renames and reloads rule sets.  app.files holds the rule sets of the    *)
(* files of ./rulesets/, which no event of the session writes.             *)

\* the size of the first grid and the first grid_size
InitialGridSize == 5

\* MaterialColor::BLANK
MaterialColor_BLANK == MaterialColor(255, 255, 255)

\* Material::blank, for each id UniqueId::new can return
Material_blank == {Material(id, "Blank", MaterialColor_BLANK) : id \in UniqueId_new(<<>>)}

\* Ruleset::blank, for each material Material::blank can return
Ruleset_blank ==
    {Ruleset("Blank", <<>>, MaterialMap_new(default), <<>>) : default \in Material_blank}

\* the orders read_dir can list the files in
DirectoryOrders(files) ==
    {order \in [1..Len(files) -> 1..Len(files)] :
        \A i, j \in 1..Len(files) : order[i] = order[j] => i = j}

\* Ruleset::load_all: a blank rule set and then the rule sets of the files,
\* in the order of the directory, or the error of a failed read
Ruleset_load_all(files) ==
    {Ok(<<blank>> \o [i \in 1..Len(files) |-> files[order[i]]]) :
        blank \in Ruleset_blank, order \in DirectoryOrders(files)}
        \cup {Err}

\* the rule sets a failed load_all falls back to
load_all_unwrap_or_else(loaded, fallback) ==
    IF loaded.kind = "Ok" THEN loaded.value[1] ELSE <<fallback>>

\* the files of ./rulesets/
RulesetFiles == {<<>>, <<TestRuleset>>, <<TestRuleset, GroupsRuleset>>}

\* AppData::new
InitSession ==
    /\ \E ruleset \in Ruleset_blank, files \in RulesetFiles :
       \E loaded \in Ruleset_load_all(files) :
          /\ grid = Grid_new(ruleset, InitialGridSize)
          /\ app = [screen |-> "Grid",
                    selected_material |-> MaterialMap_default(ruleset.materials).id,
                    grid_size |-> InitialGridSize,
                    saved_state |-> None,
                    rulesets |-> load_all_unwrap_or_else(loaded, ruleset),
                    selected_ruleset |-> 0,
                    files |-> files]
          /\ old = [created |-> ruleset, before |-> ruleset, removals |-> 0, taken |-> None]
    /\ op = "new"
    /\ clicks = 0
    /\ steps = 0
    /\ call = NoCall

\* UpdateEvent::MaterialSelected(material_id), sent by the palette of the
\* game board, which lists the materials of the grid's rule set
MaterialSelected(material_id) ==
    /\ AppHandled([fn |-> "UpdateEvent::MaterialSelected", material_id |-> material_id])
    /\ app' = [app EXCEPT !.selected_material = material_id]
    /\ old' = [old EXCEPT !.before = grid.ruleset]
    /\ UNCHANGED grid

\* what RulesetEvent::Selected(index) leaves on screen
Selected_screen(ruleset) ==
    IF app.screen = "Grid" THEN Grid_new(ruleset, app.grid_size) ELSE EditorScreen(ruleset)

\* RulesetEvent::Selected(index), sent by the combo box of the toolbar,
\* which lists the rule sets
RulesetSelected(index) ==
    /\ index < Len(app.rulesets)
    /\ AppHandled([fn |-> "RulesetEvent::Selected", index |-> index])
    /\ app' = [app EXCEPT !.selected_ruleset = index]
    /\ grid' = Selected_screen(app.rulesets[index + 1])
    /\ old' = [old EXCEPT !.before = grid.ruleset]

\* RulesetEvent::Created, and the RulesetEvent::Selected it emits
RulesetCreated ==
    \E new_ruleset \in Ruleset_new :
        /\ AppHandled([fn |-> "RulesetEvent::Created"])
        /\ app' = [app EXCEPT !.rulesets = Append(@, new_ruleset),
                              !.selected_ruleset = Len(app.rulesets)]
        /\ grid' = Selected_screen(new_ruleset)
        /\ old' = [old EXCEPT !.before = grid.ruleset]

\* RulesetEvent::Renamed(name): the rule set on screen takes the name, and
\* then rulesets[selected_ruleset], which panics out of range
RulesetRenamed(name) ==
    /\ clicks < MaxAppEvents
    /\ call' = [fn |-> "RulesetEvent::Renamed", name |-> name]
    /\ clicks' = clicks + 1
    /\ grid' = [grid EXCEPT !.ruleset.name = name]
    /\ old' = [old EXCEPT !.before = grid.ruleset]
    /\ IF app.selected_ruleset < Len(app.rulesets)
       THEN /\ app' = [app EXCEPT !.rulesets[app.selected_ruleset + 1].name = name]
            /\ op' = "event"
       ELSE /\ app' = app
            /\ op' = "panic"
    /\ UNCHANGED steps

\* RulesetEvent::Reloaded
RulesetReloaded ==
    \E loaded \in Ruleset_load_all(app.files), fallback \in Ruleset_blank :
        /\ AppHandled([fn |-> "RulesetEvent::Reloaded"])
        /\ app' = [app EXCEPT !.rulesets = load_all_unwrap_or_else(loaded, fallback)]
        /\ old' = [old EXCEPT !.before = grid.ruleset]
        /\ UNCHANGED grid

\* the events of the toolbar of the editor
ToolbarEvent ==
    \/ EditorDisabled
    \/ \E index \in UpTo(app.rulesets) : RulesetSelected(index)
    \/ RulesetCreated
    \/ \E name \in NameTexts : RulesetRenamed(name)
    \/ RulesetReloaded

NextSession ==
    /\ op /= "panic"
    /\ \/ ~EditorShown /\ GameBoardEvent
       \/ ~EditorShown /\ \E material_id \in MaterialIds(grid.ruleset) :
                              MaterialSelected(material_id)
       \/ EditorShown /\ ToolbarEvent
       \/ Stepped

SpecSession == InitSession /\ [][NextSession]_vars

\* C34: while a grid is on screen, every cell of it holds the handle of a
\* material of the grid's own rule set.
C34_CellsResolve ==
    app.screen = "Grid" =>
        \A i \in 1..Len(grid.cells) : grid.cells[i].material_id \in MaterialIds(grid.ruleset)

\* C35: selected_ruleset is an index into the list of rule sets after any
\* sequence of Created, Selected, Renamed and Reloaded events, so that
\* Renamed never indexes out of range.
C35_SelectedRulesetInRange ==
    /\ app.selected_ruleset < Len(app.rulesets)
    /\ op /= "panic"

\* C37: while a grid is on screen, grid_size is the size of that grid.
C37_GridSizeAgrees ==
    app.screen = "Grid" => app.grid_size = grid.size

---------------------------------------------------------------------------
(* The condition editor: a new rule set is on screen in the editor; rules  *)
(* are created, and the controls of their conditions create and copy       *)
(* conditions, set their variant to the defaults of the two variant        *)
(* buttons, edit the Count operator and toggle the directions.             *)

\* the variants the two variant buttons send
EditorDefaults == {Count(OperatorList(<<0>>)), Directional(<<>>)}

\* the texts typed into a count box of the condition editor
EditorCountTexts == {<<>>, <<"3", "9", "1">>, <<"8", ",", "0", ",", "8">>}

\* the direction buttons pressed
ToggledDirections == {"North", "East"}

InitConditions ==
    /\ \E ruleset \in Ruleset_new :
          /\ grid = Grid_new(ruleset, 1)
          /\ old = [created |-> ruleset, before |-> ruleset, removals |-> 0]
    /\ op = "new"
    /\ clicks = 0
    /\ steps = 0
    /\ call = NoCall
    /\ app = NoApp

\* the common part of the handlers that change the list of conditions of
\* the rule at rule_index
ConditionsHandled(event, rule_index, conditions) ==
    /\ op /= "call"
    /\ clicks < MaxConditionEvents
    /\ grid' = [grid EXCEPT !.ruleset.rules[rule_index + 1].conditions = conditions]
    /\ old' = [old EXCEPT !.before = grid.ruleset]
    /\ call' = event
    /\ op' = "event"
    /\ clicks' = clicks + 1
    /\ UNCHANGED <<steps, app>>

\* ConditionEvent::Created(index), sent by the button under the conditions
\* of a rule
ConditionCreated(rule_index) ==
    ConditionsHandled([fn |-> "ConditionEvent::Created", rule_index |-> rule_index],
                      rule_index,
                      Append(RuleIndex_rule(rule_index, grid.ruleset).conditions,
                             Condition_new(grid.ruleset)))

\* ConditionEvent::Copied(index), sent by the copy button of a condition
ConditionCopied(rule_index, condition_index) ==
    LET conditions == grid.ruleset.rules[rule_index + 1].conditions
    IN  ConditionsHandled([fn |-> "ConditionEvent::Copied", rule_index |-> rule_index,
                           condition_index |-> condition_index],
                          rule_index,
                          Vec_insert(conditions, condition_index,
                                     conditions[condition_index + 1]))

\* ConditionEvent::VariantChanged(index, variant)
VariantChanged(rule_index, condition_index, variant) ==
    ConditionHandled([fn |-> "ConditionEvent::VariantChanged", rule_index |-> rule_index,
                      condition_index |-> condition_index, variant |-> variant],
                     rule_index, condition_index, variant)

\* (variant of directions.iter().position: the direction is never found)
Vec_position_none(vec, element) == None

\* directions.iter().position(|dir| dir == direction)
Vec_position(vec, element) ==
    LET found == {i \in 1..Len(vec) : vec[i] = element}
    IN  IF found = {}
        THEN None
        ELSE Some((CHOOSE i \in found : \A j \in found : i <= j) - 1)

\* ConditionEvent::DirectionToggled(index, direction)
DirectionToggled(rule_index, condition_index, direction) ==
    LET condition == grid.ruleset.rules[rule_index + 1].conditions[condition_index + 1]
        directions == condition.variant.directions
        index == Vec_position(directions, direction)
    IN  ConditionHandled([fn |-> "ConditionEvent::DirectionToggled",
                          rule_index |-> rule_index, condition_index |-> condition_index,
                          direction |-> direction],
                         rule_index, condition_index,
                         IF condition.variant.kind /= "Directional"
                         THEN condition.variant
                         ELSE IF index /= None
                              THEN Directional(Vec_remove(directions, index[1]))
                              ELSE Directional(Append(directions, direction)))

NextConditions ==
    \/ RuleCreated
    \/ \E rule_index \in 0..(Len(grid.ruleset.rules) - 1) :
          \/ ConditionCreated(rule_index)
          \/ \E condition_index \in
                    0..(Len(grid.ruleset.rules[rule_index + 1].conditions) - 1) :
                \/ ConditionCopied(rule_index, condition_index)
                \/ \E variant \in EditorDefaults :
                      VariantChanged(rule_index, condition_index, variant)
                \/ \E count_string \in EditorCountTexts :
                      CountUpdated(rule_index, condition_index, count_string)
                \/ OperatorChanged(rule_index, condition_index)
                \/ \E direction \in ToggledDirections :
                      DirectionToggled(rule_index, condition_index, direction)

SpecConditions == InitConditions /\ [][NextConditions]_vars

\* C38: in every rule set the editor events reach from a new rule set,
\* the elements of every List operator are strictly increasing values of
\* 0..8 and the bound of every Greater and Less operator is in 0..8.
C38_CountOperatorsWellFormed ==
    \A i \in 1..Len(grid.ruleset.rules) :
        \A j \in 1..Len(grid.ruleset.rules[i].conditions) :
            LET variant == grid.ruleset.rules[i].conditions[j].variant
            IN  variant.kind = "Count" =>
                    IF variant.operator.kind = "List"
                    THEN LET vec == variant.operator.vec
                         IN  /\ \A k \in 1..Len(vec) : vec[k] \in 0..8
                             /\ \A k \in 1..(Len(vec) - 1) : vec[k] < vec[k + 1]
                    ELSE variant.operator.bound \in 0..8

\* C38 witness: a Less operator, reached by two presses of the operator
\* button, took the largest value of a text
C38_Witness ==
    /\ op = "event"
    /\ call.fn = "ConditionEvent::CountUpdated"
    /\ call.count_string = <<"8", ",", "0", ",", "8">>
    /\ EditedBefore = Count(OperatorLess(0))
    /\ EditedAfter = Count(OperatorLess(8))

\* the directions of a list
DirectionsIn(directions) == {directions[i] : i \in 1..Len(directions)}

\* C39: DirectionToggled(d) on a Directional condition removes d where the
\* list holds it and appends it where it does not; no list of directions
\* that began empty holds a direction twice; a second toggle of the same
\* direction brings back the set of directions there was before the first;
\* on a Count condition the event changes nothing.
C39_DirectionToggle ==
    /\ [](/\ (op = "event" /\ call.fn = "ConditionEvent::DirectionToggled") =>
               IF EditedBefore.kind = "Directional"
               THEN LET before == EditedBefore.directions
                        after == EditedAfter.directions
                    IN  /\ EditedAfter.kind = "Directional"
                        /\ call.direction \in DirectionsIn(before) =>
                              /\ Len(after) = Len(before) - 1
                              /\ DirectionsIn(after) = DirectionsIn(before) \ {call.direction}
                        /\ call.direction \notin DirectionsIn(before) =>
                              after = Append(before, call.direction)
               ELSE grid.ruleset = old.before
          /\ \A i \in 1..Len(grid.ruleset.rules) :
                \A j \in 1..Len(grid.ruleset.rules[i].conditions) :
                    LET variant == grid.ruleset.rules[i].conditions[j].variant
                    IN  variant.kind = "Directional" =>
                            Cardinality(DirectionsIn(variant.directions)) =
                                Len(variant.directions))
    /\ [][(/\ op = "event"
            /\ call.fn = "ConditionEvent::DirectionToggled"
            /\ EditedBefore.kind = "Directional"
            /\ call' = call) =>
               DirectionsIn(EditedAfter'.directions) = DirectionsIn(EditedBefore.directions)]_vars

\* C39 witness: North was toggled out of the list North, East, which the
\* toggle before it had completed
C39_Witness ==
    /\ op = "event"
    /\ call.fn = "ConditionEvent::DirectionToggled"
    /\ call.direction = "North"
    /\ EditedBefore = Directional(<<"North", "East">>)
    /\ EditedAfter = Directional(<<"East">>)

====
